---- MODULE Spec2Model ----
(***************************************************************************)
(* Model of the tcg-shop simulation core: the staff pathfinder and restock *)
(* state machine (game/sim/actors.py), the shelf / inventory ledger        *)
(* (game/sim/shop.py, game/sim/inventory.py), the shop scene's purchase,   *)
(* stocking, listing and sellback handlers (game/scenes/shop_scene.py),    *)
(* the frame loop and order delivery (game/core/app.py) and the skill tree *)
(* (game/sim/skill_tree.py).                                               *)
(*                                                                         *)
(* Units.  Time is counted in units of 0.05 s (the largest frame step the  *)
(* main loop lets through) and positions in units of 0.01 tile, so that    *)
(* the timers (0.8 s, 0.4 s), the staff speed (4 tiles/s) and the customer *)
(* speed (1.4 tiles/s) are integers.                                       *)
(* Shelf keys "x,y" are kept as the tile <<x, y>> they parse to.           *)
(***************************************************************************)
EXTENDS Integers, Sequences, FiniteSets, TLC

----------------------------------------------------------------------------
(* Small helpers                                                           *)

Min(a, b) == IF a <= b THEN a ELSE b
Max(a, b) == IF a >= b THEN a ELSE b
Abs(a) == IF a < 0 THEN -a ELSE a

Range(s) == {s[i] : i \in DOMAIN s}

RECURSIVE SumSeq(_)
SumSeq(s) == IF s = <<>> THEN 0 ELSE Head(s) + SumSeq(Tail(s))

----------------------------------------------------------------------------
(* game/sim/actors.py: tiles and the breadth-first pathfinder              *)

\* _manhattan
Manhattan(a, b) == Abs(a[1] - b[1]) + Abs(a[2] - b[2])

\* _is_walkable: in bounds and not in the blocked set
IsWalkableAnyBlocked(tile, grid, blocked) ==
    ~(tile[1] < 0 \/ tile[2] < 0 \/ tile[1] >= grid[1] \/ tile[2] >= grid[2])

IsWalkable(tile, grid, blocked) ==
    IF tile[1] < 0 \/ tile[2] < 0 \/ tile[1] >= grid[1] \/ tile[2] >= grid[2]
    THEN FALSE
    ELSE tile \notin blocked

\* the neighbour order of the BFS loop and of _adjacent_walk_tiles
Candidates(t) ==
    << <<t[1] + 1, t[2]>>, <<t[1] - 1, t[2]>>, <<t[1], t[2] + 1>>, <<t[1], t[2] - 1>> >>

\* _adjacent_walk_tiles: the walkable neighbours, in candidate order
AdjacentWalkTiles(shelf_tile, grid, blocked) ==
    SelectSeq(Candidates(shelf_tile), LAMBDA t : IsWalkable(t, grid, blocked))

\* q.popleft(): the tile taken from the queue and what is left of the queue
BfsDequeueLifo(q) == [cur |-> q[Len(q)], rest |-> SubSeq(q, 1, Len(q) - 1)]

BfsDequeue(q) == [cur |-> Head(q), rest |-> Tail(q)]

\* the inner for loop of _bfs_path over the four neighbours of cur;
\* s = [q, prev, seen]
RECURSIVE BfsVisit(_, _, _, _, _, _)
BfsVisit(s, cur, i, cands, grid, blocked) ==
    IF i > Len(cands) THEN s
    ELSE LET nxt == cands[i] IN
         IF nxt \in s.seen \/ ~IsWalkable(nxt, grid, blocked)
         THEN BfsVisit(s, cur, i + 1, cands, grid, blocked)
         ELSE BfsVisit([q    |-> Append(s.q, nxt),
                        prev |-> (nxt :> cur) @@ s.prev,
                        seen |-> s.seen \cup {nxt}],
                       cur, i + 1, cands, grid, blocked)

\* the backward reconstruction: goal, prev[goal], ... up to (excluding) start
RECURSIVE BfsReconstruct(_, _, _, _)
BfsReconstruct(cur, start, prev, acc) ==
    IF cur = start THEN acc
    ELSE BfsReconstruct(prev[cur], start, prev, <<cur>> \o acc)

\* the while loop of _bfs_path; its else branch (queue exhausted) is None
RECURSIVE BfsLoop(_, _, _, _, _)
BfsLoop(s, start, goal, grid, blocked) ==
    IF s.q = <<>> THEN [found |-> FALSE, path |-> <<>>]
    ELSE LET d == BfsDequeue(s.q) IN
         IF d.cur = goal
         THEN [found |-> TRUE, path |-> BfsReconstruct(goal, start, s.prev, <<>>)]
         ELSE BfsLoop(BfsVisit([q |-> d.rest, prev |-> s.prev, seen |-> s.seen],
                               d.cur, 1, Candidates(d.cur), grid, blocked),
                      start, goal, grid, blocked)

\* _bfs_path: found = FALSE stands for None
BfsPath(start, goal, grid, blocked) ==
    IF start = goal THEN [found |-> TRUE, path |-> <<>>]
    ELSE IF ~IsWalkable(goal, grid, blocked) THEN [found |-> FALSE, path |-> <<>>]
    ELSE BfsLoop([q |-> <<start>>, prev |-> << >>, seen |-> {start}],
                 start, goal, grid, blocked)

\* "_bfs_path(...) or []": the path handed to the staff
PathOrEmpty(r) == IF r.found THEN r.path ELSE <<>>

----------------------------------------------------------------------------
(* Pathfinder harness: a grid, a blocked set, and one _bfs_path call       *)

BfsW == 3
BfsH == 2
MaxBlocked == 2

BfsGrid == <<BfsW, BfsH>>
BfsTiles == (0 .. BfsW - 1) \X (0 .. BfsH - 1)
\* goals also range over the ring of tiles just outside the grid
BfsGoals == (-1 .. BfsW) \X (-1 .. BfsH)

VARIABLES bfs_blocked, bfs_call, bfs_result

bfsVars == <<bfs_blocked, bfs_call, bfs_result>>

NoCall == [called |-> FALSE, start |-> <<0, 0>>, goal |-> <<0, 0>>]
NoResult == [found |-> FALSE, path |-> <<>>]

\* the caller blocks one more tile (an object is placed on it)
BfsBlock(t) ==
    /\ ~bfs_call.called
    /\ Cardinality(bfs_blocked) < MaxBlocked
    /\ t \notin bfs_blocked
    /\ bfs_blocked' = bfs_blocked \cup {t}
    /\ UNCHANGED <<bfs_call, bfs_result>>

\* one call _bfs_path(start, goal, grid=..., blocked=...)
BfsCall(start, goal) ==
    /\ ~bfs_call.called
    /\ bfs_call' = [called |-> TRUE, start |-> start, goal |-> goal]
    /\ bfs_result' = BfsPath(start, goal, BfsGrid, bfs_blocked)
    /\ UNCHANGED bfs_blocked

\* Reference definitions for the pathfinder properties, independent of the
\* pathfinder: the tiles one step away from a set of tiles, and the graph
\* distance by layers (-1 when the goal is never reached)
OpenTiles == BfsTiles \ bfs_blocked

StepFrom(S, open) == {t \in open : \E u \in S : Manhattan(u, t) = 1}

RECURSIVE GraphDist(_, _, _, _, _)
GraphDist(frontier, seen, goal, d, open) ==
    IF goal \in frontier THEN d
    ELSE IF frontier = {} THEN -1
    ELSE LET nf == StepFrom(frontier, open) \ seen
         IN GraphDist(nf, seen \cup nf, goal, d + 1, open)

CallDist == GraphDist({bfs_call.start}, {bfs_call.start}, bfs_call.goal, 0, OpenTiles)

\* C6: a non-empty path returned by _bfs_path holds only in-bounds, unblocked
\* tiles, each 4-adjacent to its predecessor (the first to start), and ends
\* at goal; the path handed to the staff is empty exactly when start = goal
\* or goal is blocked, out of bounds or unreachable.
BfsPathValid ==
    bfs_call.called =>
        LET p == PathOrEmpty(bfs_result) IN
        /\ p # <<>> =>
              /\ \A k \in 1 .. Len(p) : p[k] \in OpenTiles
              /\ Manhattan(bfs_call.start, p[1]) = 1
              /\ \A k \in 2 .. Len(p) : Manhattan(p[k - 1], p[k]) = 1
              /\ p[Len(p)] = bfs_call.goal
        /\ (p = <<>>) <=> \/ bfs_call.start = bfs_call.goal
                          \/ bfs_call.goal \in bfs_blocked
                          \/ bfs_call.goal \notin BfsTiles
                          \/ CallDist = -1

\* C6 case: a path was returned that had to leave the straight line because
\* of a blocked tile
BfsDetourReturned ==
    /\ bfs_call.called
    /\ bfs_blocked # {}
    /\ Len(PathOrEmpty(bfs_result)) > Manhattan(bfs_call.start, bfs_call.goal)

\* C7: whenever goal is reachable from start, the returned path has exactly
\* the graph distance from start to goal as its number of steps.
BfsPathShortest ==
    (bfs_call.called /\ CallDist >= 0) =>
        bfs_result.found /\ Len(bfs_result.path) = CallDist

\* C7 case: a reachable goal at graph distance 3 or more with a blocked tile
\* on the grid, and the path returned for it
BfsShortestAroundBlock ==
    /\ bfs_call.called
    /\ bfs_blocked # {}
    /\ CallDist >= 3
    /\ bfs_result.found

----------------------------------------------------------------------------
(* game/sim/inventory.py, game/sim/shop.py, game/cards: the data model     *)

RARITIES == <<"common", "uncommon", "rare", "epic", "legendary">>
RaritySet == Range(RARITIES)

\* f"single_{rarity}"
SingleProduct(r) ==
    CASE r = "common" -> "single_common"
      [] r = "uncommon" -> "single_uncommon"
      [] r = "rare" -> "single_rare"
      [] r = "epic" -> "single_epic"
      [] r = "legendary" -> "single_legendary"

\* product.startswith("single_")
IsSingle(p) == p \in {SingleProduct(r) : r \in RaritySet}

\* product.replace("single_", "")
RarityOf(p) == CHOOSE r \in RaritySet : SingleProduct(r) = p

\* ShopScene.products: the product list of the stocking menu
Products ==
    <<"booster", "deck", "single_common", "single_uncommon", "single_rare",
      "single_epic", "single_legendary">>

\* the cards of CARD_INDEX the model keeps, with their rarity
CardIds == {"c1", "c2", "u1", "r1"}
CardRarity(c) ==
    IF c = "r1" THEN "rare" ELSE IF c = "u1" THEN "uncommon" ELSE "common"

NoKey == <<-1, -1>>
NoTile == <<-1, -1>>
NoCard == "none"

\* RestockPlan; NoPlan stands for None
NoPlan == [shelf_key |-> NoKey, product |-> "none", amount |-> 0, card_id |-> NoCard]
RestockPlan(key, product, amount, card_id) ==
    [shelf_key |-> key, product |-> product, amount |-> amount, card_id |-> card_id]

\* Inventory(): no stock, every rarity at 0
EmptySingles == [r \in RaritySet |-> 0]

\* CardCollection.remove(card_id, amount)
CollectionCanRemove(collection, cid, amount) == collection[cid] >= amount
CollectionRemove(collection, cid, amount) ==
    IF collection[cid] >= amount
    THEN [collection EXCEPT ![cid] = @ - amount]
    ELSE collection

----------------------------------------------------------------------------
(* game/sim/actors.py: the staff actor                                     *)

MAX_CARRY_BOOSTERS == 3
MAX_CARRY_DECKS == 3
MAX_CARRY_SINGLES == 10

\* one tile in position units; speed 4 tiles/s = 20 units per time unit
TileUnits == 100
SpeedUnits == 20
\* scan cooldown set on a scan (0.8 s), initial cooldown (0.4 s), stock_time (0.8 s)
ScanCooldown == 16
InitScanCooldown == 8
StockTime == 16

\* _tile_center
TileCenter(t) == <<t[1] * TileUnits + TileUnits \div 2, t[2] * TileUnits + TileUnits \div 2>>
\* (int(pos[0]), int(pos[1]))
TileOf(pos) == <<pos[1] \div TileUnits, pos[2] \div TileUnits>>

\* Staff.carry_singles_total
CarrySinglesTotal(st) == SumSeq([i \in 1 .. Len(RARITIES) |-> st.carry_singles[RARITIES[i]]])

\* Staff(pos=...)
NewStaff(pos) ==
    [pos |-> pos, state |-> "idle", task |-> "none", target_shelf_key |-> NoKey,
     target_tile |-> NoTile, path |-> <<>>, scan_cooldown |-> InitScanCooldown,
     stock_timer |-> 0, plan |-> NoPlan, priority_shelf_key |-> NoKey,
     carry_boosters |-> 0, carry_decks |-> 0, carry_singles |-> EmptySingles]

\* notify_shelf_change
NotifyKeepsCooldown(st, key) == [st EXCEPT !.priority_shelf_key = key]

NotifyShelfChange(st, key) ==
    [st EXCEPT !.priority_shelf_key = key, !.scan_cooldown = 0]

\* walk_tiles.sort(key=manhattan from `from`); walk_tiles[0]: the sort is
\* stable, so this is the first tile of minimal distance
NearestWalkTile(walk, from) ==
    LET i == CHOOSE i \in 1 .. Len(walk) :
                 /\ \A j \in 1 .. Len(walk) : Manhattan(from, walk[i]) <= Manhattan(from, walk[j])
                 /\ \A j \in 1 .. i - 1 : Manhattan(from, walk[j]) > Manhattan(from, walk[i])
    IN walk[i]

\* choose_restock_plan, "what this shelf should be restocked with": the
\* product an empty bulk shelf would get, "none" when nothing is in stock
DesiredForEmpty(inventory) ==
    IF inventory.booster_packs > 0 THEN "booster"
    ELSE IF inventory.decks > 0 THEN "deck"
    ELSE LET avail == SelectSeq(RARITIES, LAMBDA r : inventory.singles[r] > 0) IN
         IF avail = <<>> THEN "none" ELSE SingleProduct(Head(avail))

\* choose_restock_plan: does the source material for this product exist
HasSource(desired, inventory) ==
    IF desired = "booster" THEN inventory.booster_packs > 0
    ELSE IF desired = "deck" THEN inventory.decks > 0
    ELSE IF IsSingle(desired) THEN inventory.singles[RarityOf(desired)] > 0
    ELSE FALSE

\* min(max_qty - 1, int(max_qty * threshold_ratio)) with threshold_ratio = 0.999
RestockThresholdFull(max_qty) == max_qty

RestockThreshold(max_qty) == Min(max_qty - 1, (max_qty * 999) \div 1000)

\* choose_restock_plan: the per-shelf filter of the scan loop
ShelfEligible(stock, inventory, collection, deck) ==
    /\ stock.max_qty > 0
    /\ stock.qty <= RestockThreshold(stock.max_qty)
    /\ IF stock.cards # <<>>
       THEN collection[stock.cards[1]] > deck[stock.cards[1]]
       ELSE LET desired == IF stock.product = "empty" THEN DesiredForEmpty(inventory)
                           ELSE stock.product
            IN HasSource(desired, inventory)

\* choose_restock_plan: the scan over shelf_stocks in dictionary order,
\* keeping the first shelf of strictly smaller Manhattan distance
RECURSIVE ChooseScan(_, _, _, _, _, _, _, _, _)
ChooseScan(keys, i, staff_tile, shelf_stocks, inventory, collection, deck, best_dist, best_plan) ==
    IF i > Len(keys) THEN best_plan
    ELSE LET key == keys[i]
             stock == shelf_stocks[key]
             dist == Manhattan(staff_tile, key)
         IN IF ShelfEligible(stock, inventory, collection, deck) /\ dist < best_dist
            THEN ChooseScan(keys, i + 1, staff_tile, shelf_stocks, inventory, collection, deck,
                            dist,
                            RestockPlan(key, stock.product, Max(1, stock.max_qty - stock.qty),
                                        IF stock.cards # <<>> THEN stock.cards[1] ELSE NoCard))
            ELSE ChooseScan(keys, i + 1, staff_tile, shelf_stocks, inventory, collection, deck,
                            best_dist, best_plan)

ChooseRestockPlan(staff_tile, keys, shelf_stocks, inventory, collection, deck) ==
    ChooseScan(keys, 1, staff_tile, shelf_stocks, inventory, collection, deck, 1000000, NoPlan)

\* apply_restock(plan, ..., amount=2): the restock from the collection (a plan
\* with a card id) or straight from the inventory (a bulk plan)
ApplyRestock(plan, shelf_stocks, inventory, collection, deck, amount) ==
    LET same == [shelf_stocks |-> shelf_stocks, inventory |-> inventory,
                 collection |-> collection, moved |-> 0]
    IN IF plan.shelf_key \notin DOMAIN shelf_stocks THEN same
       ELSE LET stock == shelf_stocks[plan.shelf_key]
                capacity == stock.max_qty - stock.qty
            IN IF stock.qty >= stock.max_qty THEN same
               ELSE IF plan.card_id # NoCard
               THEN LET cid == plan.card_id IN
                    IF collection[cid] <= deck[cid] THEN same
                    ELSE IF stock.cards = <<>> THEN same
                    ELSE IF ~CollectionCanRemove(collection, cid, 1) THEN same
                    ELSE [same EXCEPT
                            !.collection = CollectionRemove(collection, cid, 1),
                            !.shelf_stocks = [shelf_stocks EXCEPT ![plan.shelf_key] =
                                [stock EXCEPT !.cards = Append(stock.cards, cid),
                                              !.qty = Len(stock.cards) + 1,
                                              !.product = plan.product]],
                            !.moved = 1]
               ELSE LET want == Min(amount, capacity)
                        avail == IF plan.product = "booster" THEN inventory.booster_packs
                                 ELSE IF plan.product = "deck" THEN inventory.decks
                                 ELSE IF IsSingle(plan.product)
                                      THEN inventory.singles[RarityOf(plan.product)]
                                 ELSE 0
                        to_add == Min(want, avail)
                    IN IF ~(plan.product \in {"booster", "deck"} \/ IsSingle(plan.product))
                       THEN same
                       ELSE IF to_add <= 0 THEN same
                       ELSE [same EXCEPT
                               !.inventory =
                                   IF plan.product = "booster"
                                   THEN [inventory EXCEPT !.booster_packs = @ - to_add]
                                   ELSE IF plan.product = "deck"
                                   THEN [inventory EXCEPT !.decks = @ - to_add]
                                   ELSE [inventory EXCEPT
                                           !.singles[RarityOf(plan.product)] = avail - to_add],
                               !.shelf_stocks = [shelf_stocks EXCEPT ![plan.shelf_key] =
                                   [stock EXCEPT !.product = plan.product,
                                                 !.cards = <<>>,
                                                 !.qty = @ + to_add]],
                               !.moved = to_add]

\* take = min(need, available): how much one pickup step takes
TakeAmountAll(need, avail) == avail
TakeAmountNeed(need, avail) == need

TakeAmount(need, avail) == Min(need, avail)

\* _pickup_at_counter, the singles loop over `order`; s = [st, inv, remaining]
RECURSIVE PickupSingles(_, _, _)
PickupSingles(s, order, i) ==
    IF i > Len(order) \/ s.remaining <= 0 THEN s
    ELSE LET r == order[i]
             avail == s.inv.singles[r]
         IN IF avail <= 0 THEN PickupSingles(s, order, i + 1)
            ELSE LET take == TakeAmount(s.remaining, avail) IN
                 PickupSingles([st |-> [s.st EXCEPT !.carry_singles[r] = @ + take],
                                inv |-> [s.inv EXCEPT !.singles[r] = avail - take],
                                remaining |-> s.remaining - take],
                               order, i + 1)

\* _pickup_at_counter: top the carry up to the limits, out of the inventory;
\* preferred = "none" stands for None
PickupAtCounter(st0, inv0, preferred) ==
    LET need_b == MAX_CARRY_BOOSTERS - st0.carry_boosters
        take_b == IF need_b > 0 /\ inv0.booster_packs > 0
                  THEN TakeAmount(need_b, inv0.booster_packs) ELSE 0
        need_d == MAX_CARRY_DECKS - st0.carry_decks
        take_d == IF need_d > 0 /\ inv0.decks > 0
                  THEN TakeAmount(need_d, inv0.decks) ELSE 0
        st1 == [st0 EXCEPT !.carry_boosters = @ + take_b, !.carry_decks = @ + take_d]
        inv1 == [inv0 EXCEPT !.booster_packs = @ - take_b, !.decks = @ - take_d]
        remaining == MAX_CARRY_SINGLES - CarrySinglesTotal(st1)
        order == (IF preferred \in RaritySet THEN <<preferred>> ELSE <<>>)
                 \o SelectSeq(RARITIES, LAMBDA r : r # preferred)
        s == PickupSingles([st |-> st1, inv |-> inv1, remaining |-> remaining], order, 1)
    IN IF remaining <= 0 THEN [st |-> st1, inv |-> inv1]
       ELSE [st |-> s.st, inv |-> s.inv]

\* _deliver_from_carry, "fallback to what staff carries" for an empty shelf
CarriedProduct(st) ==
    IF st.carry_boosters > 0 THEN "booster"
    ELSE IF st.carry_decks > 0 THEN "deck"
    ELSE LET have == SelectSeq(RARITIES, LAMBDA r : st.carry_singles[r] > 0) IN
         IF have = <<>> THEN "empty" ELSE SingleProduct(Head(have))

\* _deliver_from_carry: restock a shelf out of the carried items
DeliverFromCarry(st, plan, shelf_stocks) ==
    LET same == [st |-> st, shelf_stocks |-> shelf_stocks, moved |-> 0]
    IN IF plan.shelf_key \notin DOMAIN shelf_stocks THEN same
       ELSE LET stock == shelf_stocks[plan.shelf_key]
                capacity == stock.max_qty - stock.qty
                p1 == IF stock.product = "empty" /\ plan.product # "empty"
                      THEN plan.product ELSE stock.product
                product == IF p1 = "empty" THEN CarriedProduct(st) ELSE p1
            IN IF stock.max_qty <= 0 \/ stock.qty >= stock.max_qty \/ capacity <= 0 THEN same
               ELSE IF product = "booster"
               THEN LET to_add == Min(capacity, st.carry_boosters) IN
                    IF to_add <= 0 THEN same
                    ELSE [st |-> [st EXCEPT !.carry_boosters = @ - to_add],
                          shelf_stocks |-> [shelf_stocks EXCEPT ![plan.shelf_key] =
                              [stock EXCEPT !.product = "booster", !.qty = @ + to_add]],
                          moved |-> to_add]
               ELSE IF product = "deck"
               THEN LET to_add == Min(capacity, st.carry_decks) IN
                    IF to_add <= 0 THEN same
                    ELSE [st |-> [st EXCEPT !.carry_decks = @ - to_add],
                          shelf_stocks |-> [shelf_stocks EXCEPT ![plan.shelf_key] =
                              [stock EXCEPT !.product = "deck", !.qty = @ + to_add]],
                          moved |-> to_add]
               ELSE IF IsSingle(product)
               THEN LET rarity == RarityOf(product)
                        to_add == Min(capacity, st.carry_singles[rarity])
                    IN IF to_add <= 0 THEN same
                       ELSE [st |-> [st EXCEPT !.carry_singles[rarity] = @ - to_add],
                             shelf_stocks |-> [shelf_stocks EXCEPT ![plan.shelf_key] =
                                 [stock EXCEPT !.product = product, !.qty = @ + to_add,
                                               !.cards = <<>>]],
                             moved |-> to_add]
               ELSE same

\* math.sqrt, rounded down to a whole position unit
Isqrt(n) == CHOOSE r \in 0 .. n : r * r <= n /\ (r + 1) * (r + 1) > n

\* n / d rounded to the nearest position unit (d > 0)
RoundDiv(n, d) == IF n >= 0 THEN (2 * n + d) \div (2 * d) ELSE -((2 * (-n) + d) \div (2 * d))

\* update_staff, a step that leaves the staff where it stands
StepNowhere(pos, target, step) == pos

\* update_staff, the step toward (tx, ty): snap when the step covers the
\* distance, otherwise advance by step along the straight line
StepToward(pos, target, step) ==
    LET dx == target[1] - pos[1]
        dy == target[2] - pos[2]
        dist2 == dx * dx + dy * dy
    IN IF step * step >= dist2 THEN target
       ELSE IF dy = 0 THEN <<pos[1] + (IF dx > 0 THEN step ELSE -step), pos[2]>>
       ELSE IF dx = 0 THEN <<pos[1], pos[2] + (IF dy > 0 THEN step ELSE -step)>>
       ELSE LET dist == Isqrt(dist2) IN
            <<pos[1] + RoundDiv(dx * step, dist), pos[2] + RoundDiv(dy * step, dist)>>

NoRestock == [did_restock |-> FALSE, items_moved |-> 0, product |-> "none"]

\* update_staff, state == "stocking"
StaffStocking(st0, dt, shelf_stocks, inventory, collection, deck) ==
    LET st == [st0 EXCEPT !.stock_timer = Max(0, @ - dt)]
        same == [st |-> st, shelf_stocks |-> shelf_stocks, inventory |-> inventory,
                 collection |-> collection, res |-> NoRestock]
    IN IF st.stock_timer <= 0 /\ st.plan # NoPlan
       THEN LET viaCards == st.plan.card_id # NoCard
                a == ApplyRestock(st.plan, shelf_stocks, inventory, collection, deck, 2)
                d == DeliverFromCarry(st, st.plan, shelf_stocks)
                moved == IF viaCards THEN a.moved ELSE d.moved
                st1 == IF viaCards THEN st ELSE d.st
                st2 == [st1 EXCEPT !.plan = NoPlan, !.target_shelf_key = NoKey,
                                   !.target_tile = NoTile, !.path = <<>>,
                                   !.state = "idle", !.task = "none"]
            IN [st |-> st2,
                shelf_stocks |-> IF viaCards THEN a.shelf_stocks ELSE d.shelf_stocks,
                inventory |-> IF viaCards THEN a.inventory ELSE inventory,
                collection |-> IF viaCards THEN a.collection ELSE collection,
                res |-> IF moved > 0
                        THEN [did_restock |-> TRUE, items_moved |-> moved,
                              product |-> st.plan.product]
                        ELSE NoRestock]
       ELSE same

\* update_staff, "pick up stock at the counter, then retarget the shelf"
StaffArriveAtCounter(st, grid, blocked, inventory) ==
    LET preferred == IF st.plan # NoPlan /\ IsSingle(st.plan.product)
                     THEN RarityOf(st.plan.product) ELSE "none"
        p == PickupAtCounter(st, inventory, preferred)
        st1 == [p.st EXCEPT !.task = "deliver"]
        walk == AdjacentWalkTiles(st1.plan.shelf_key, grid, blocked)
        staff_tile == TileOf(st1.pos)
        dest == NearestWalkTile(walk, staff_tile)
    IN IF st1.plan = NoPlan
       THEN [st |-> [st1 EXCEPT !.state = "idle", !.task = "none"], inv |-> p.inv]
       ELSE IF walk = <<>>
       THEN [st |-> [st1 EXCEPT !.state = "idle", !.task = "none", !.plan = NoPlan],
             inv |-> p.inv]
       ELSE [st |-> [st1 EXCEPT !.target_tile = dest,
                                !.path = PathOrEmpty(BfsPath(staff_tile, dest, grid, blocked)),
                                !.state = "moving"],
             inv |-> p.inv]

\* update_staff, "dist2 < 0.0004" in squared position units
ArriveDist2 == 4

\* update_staff, "if staff.task == 'pickup'" on reaching the final tile
TaskNeverPickup(task) == FALSE

TaskIsPickup(task) == task = "pickup"

\* update_staff, state == "moving"
StaffMoving(st, dt, grid, blocked, shelf_stocks, inventory, collection) ==
    LET same == [st |-> st, shelf_stocks |-> shelf_stocks, inventory |-> inventory,
                 collection |-> collection, res |-> NoRestock]
    IN IF st.target_tile = NoTile THEN [same EXCEPT !.st.state = "idle"]
       ELSE LET next_tile == IF st.path # <<>> THEN st.path[1] ELSE st.target_tile
                t == TileCenter(next_tile)
                dx == t[1] - st.pos[1]
                dy == t[2] - st.pos[2]
            IN IF dx * dx + dy * dy < ArriveDist2
               THEN LET st1 == IF st.path # <<>> THEN [st EXCEPT !.path = Tail(@)] ELSE st IN
                    IF st1.path = <<>> /\ next_tile = st1.target_tile
                    THEN IF TaskIsPickup(st1.task)
                         THEN LET a == StaffArriveAtCounter(st1, grid, blocked, inventory) IN
                              [same EXCEPT !.st = a.st, !.inventory = a.inv]
                         ELSE [same EXCEPT !.st = [st1 EXCEPT !.state = "stocking",
                                                              !.stock_timer = StockTime,
                                                              !.pos = t]]
                    ELSE [same EXCEPT !.st = [st1 EXCEPT !.pos = t]]
               ELSE [same EXCEPT !.st.pos = StepToward(st.pos, t, SpeedUnits * dt)]

\* update_staff, "if plan points at a shelf that is truly empty, choose what
\* to put on it based on carry/inventory"
ProductForEmptyShelf(st, inventory, product) ==
    IF st.carry_boosters > 0 \/ inventory.booster_packs > 0 THEN "booster"
    ELSE IF st.carry_decks > 0 \/ inventory.decks > 0 THEN "deck"
    ELSE LET avail == SelectSeq(RARITIES, LAMBDA r :
                          st.carry_singles[r] > 0 \/ inventory.singles[r] > 0)
         IN IF avail = <<>> THEN product ELSE SingleProduct(Head(avail))

\* update_staff, "decide whether we need to visit the counter first"
NeedsPickup(st, product) ==
    \/ product = "booster" /\ st.carry_boosters <= 0
    \/ product = "deck" /\ st.carry_decks <= 0
    \/ IsSingle(product) /\ st.carry_singles[RarityOf(product)] <= 0
    \/ st.carry_boosters + st.carry_decks + CarrySinglesTotal(st) <= 0

\* update_staff, state == "idle" with the scan cooldown elapsed
StaffScan(st0, grid, blocked, counter_tile, keys, shelf_stocks, inventory, collection, deck) ==
    LET st1 == [st0 EXCEPT !.scan_cooldown = ScanCooldown]
        staff_tile == TileOf(st1.pos)
        pkey == st1.priority_shelf_key
        hasPrio == pkey # NoKey /\ pkey \in DOMAIN shelf_stocks
        prioPlan == IF hasPrio /\ shelf_stocks[pkey].qty < shelf_stocks[pkey].max_qty
                    THEN RestockPlan(pkey, shelf_stocks[pkey].product,
                                     shelf_stocks[pkey].max_qty - shelf_stocks[pkey].qty, NoCard)
                    ELSE NoPlan
        st2 == IF hasPrio THEN [st1 EXCEPT !.priority_shelf_key = NoKey] ELSE st1
        plan0 == IF prioPlan # NoPlan THEN prioPlan
                 ELSE ChooseRestockPlan(staff_tile, keys, shelf_stocks, inventory, collection, deck)
    IN IF plan0 = NoPlan THEN st2
       ELSE LET plan == IF shelf_stocks[plan0.shelf_key].product = "empty"
                        THEN [plan0 EXCEPT !.product = ProductForEmptyShelf(st2, inventory, @)]
                        ELSE plan0
                st3 == [st2 EXCEPT !.plan = plan, !.target_shelf_key = plan.shelf_key]
                toCounter == NeedsPickup(st2, plan.product) /\ counter_tile # NoTile
                walk == AdjacentWalkTiles(IF toCounter THEN counter_tile ELSE plan.shelf_key,
                                          grid, blocked)
                dest == NearestWalkTile(walk, staff_tile)
            IN IF walk = <<>> THEN st3
               ELSE [st3 EXCEPT !.target_tile = dest,
                                !.path = PathOrEmpty(BfsPath(staff_tile, dest, grid, blocked)),
                                !.task = IF toCounter THEN "pickup" ELSE "deliver",
                                !.state = "moving"]

\* update_staff: one step of the staff state machine
UpdateStaff(st0, dt, grid, blocked, counter_tile, keys, shelf_stocks, inventory, collection, deck) ==
    LET st == [st0 EXCEPT !.scan_cooldown = Max(0, @ - dt)]
        same == [st |-> st, shelf_stocks |-> shelf_stocks, inventory |-> inventory,
                 collection |-> collection, res |-> NoRestock]
    IN IF st.state = "stocking"
       THEN StaffStocking(st, dt, shelf_stocks, inventory, collection, deck)
       ELSE IF st.state = "moving"
       THEN StaffMoving(st, dt, grid, blocked, shelf_stocks, inventory, collection)
       ELSE IF st.scan_cooldown > 0 THEN same
       ELSE [same EXCEPT !.st = StaffScan(st, grid, blocked, counter_tile, keys, shelf_stocks,
                                          inventory, collection, deck)]

----------------------------------------------------------------------------
(* The shop: layout, ledger and staff actor                                *)

\* SHOP_GRID, scaled down
GridW == 3
GridH == 3
SHOP_GRID == <<GridW, GridH>>
GridTiles == (0 .. GridW - 1) \X (0 .. GridH - 1)

\* the counter object and the shelf tiles of the layouts considered, in the
\* insertion order of shop_layout.shelf_stocks
CounterTile == <<1, 2>>
ShelfA == <<1, 1>>
ShelfB == <<1, 0>>
AllShelfKeys == <<ShelfA, ShelfB>>
\* two more shelf tiles, later in that order: shelf C stands in the corner
\* between the counter and shelf D, with no tile to serve it from
ShelfC == <<0, 2>>
ShelfD == <<0, 1>>
BackShelfKeys == <<ShelfC, ShelfD>>

\* ShelfStock.max_qty of the shelves considered
ShelfMax == 2

VARIABLES shelf_stocks, inventory, collection, deck, staff

shopVars == <<shelf_stocks, inventory, collection, deck, staff>>

\* shelf_stocks.items(): the keys in dictionary order
ShelfKeys == SelectSeq(AllShelfKeys \o BackShelfKeys, LAMBDA k : k \in DOMAIN shelf_stocks)

\* _staff_blocked_tiles: the tiles of all placed objects
BlockedTiles == DOMAIN shelf_stocks \cup {CounterTile}

ShelfStock(product, qty, max_qty, cards) ==
    [product |-> product, qty |-> qty, max_qty |-> max_qty, cards |-> cards]

Inventory(b, d, singles) == [booster_packs |-> b, decks |-> d, singles |-> singles]

NoCards == [c \in CardIds |-> 0]

\* ShopScene.staff = Staff(pos=...): the staff starts on the counter tile
StaffStart == TileCenter(CounterTile)

\* the update_staff call of _update_day
StaffTick(dt) ==
    LET r == UpdateStaff(staff, dt, SHOP_GRID, BlockedTiles, CounterTile, ShelfKeys,
                         shelf_stocks, inventory, collection, deck)
    IN /\ staff' = r.st
       /\ shelf_stocks' = r.shelf_stocks
       /\ inventory' = r.inventory
       /\ collection' = r.collection
       /\ UNCHANGED deck

----------------------------------------------------------------------------
(* Staff alone: update_staff ticks over a stocked warehouse                *)

\* the dt arguments of update_staff: 0.2 s and 0.8 s
StaffDTs == {4, 16}

\* the warehouse stocks considered: none, one unit, or more than a full carry
StaffInventories ==
    {Inventory(b, d, [EmptySingles EXCEPT !["common"] = c, !["rare"] = r]) :
        b \in {0, 1, MAX_CARRY_BOOSTERS + 1}, d \in {0, MAX_CARRY_DECKS + 1},
        c \in {0, MAX_CARRY_SINGLES, MAX_CARRY_SINGLES + 1}, r \in {0, 1}}

\* shelf A is an empty bulk shelf; shelf B an empty bulk shelf or a shelf
\* listing one copy of card c1
StaffShelves ==
    {(ShelfA :> ShelfStock(pa, 0, ShelfMax, <<>>)) @@ (ShelfB :> sb) :
        pa \in {"booster", "empty"},
        sb \in {ShelfStock(pb, 0, ShelfMax, <<>>) : pb \in {"single_rare", "single_common", "deck"}}
               \cup {ShelfStock("single_common", 1, ShelfMax, <<"c1">>)}}

\* the parity of the number of update_staff calls made so far: a history
\* variable through which the fairness condition names the call
VARIABLE tick_parity

TickCounted == tick_parity' = 1 - tick_parity

\* C3: carry_boosters <= MAX_CARRY_BOOSTERS, carry_decks <= MAX_CARRY_DECKS,
\* the sum of carry_singles over all rarities <= MAX_CARRY_SINGLES, and no
\* carried count is negative, in every state reached by update_staff ticks
\* from an empty carry buffer.
CarryWithinLimits ==
    /\ staff.carry_boosters \in 0 .. MAX_CARRY_BOOSTERS
    /\ staff.carry_decks \in 0 .. MAX_CARRY_DECKS
    /\ \A r \in RaritySet : staff.carry_singles[r] >= 0
    /\ CarrySinglesTotal(staff) <= MAX_CARRY_SINGLES

\* C3 case: a pickup that hit every limit and left stock of each kind behind
CarryFilledToLimits ==
    /\ staff.carry_boosters = MAX_CARRY_BOOSTERS /\ inventory.booster_packs > 0
    /\ staff.carry_decks = MAX_CARRY_DECKS /\ inventory.decks > 0
    /\ CarrySinglesTotal(staff) = MAX_CARRY_SINGLES /\ inventory.singles["common"] > 0

\* the tiles the staff can walk on, and whether some walkable tile next to
\* `tile` can be reached from the staff's tile
ShopOpen == GridTiles \ BlockedTiles

StaffCanReachBeside(tile) ==
    \E t \in Range(AdjacentWalkTiles(tile, SHOP_GRID, BlockedTiles)) :
        GraphDist({TileOf(staff.pos)}, {TileOf(staff.pos)}, t, 0, ShopOpen) >= 0

\* the premises of the restock guarantee for shelf k: a bulk shelf below its
\* capacity, a unit of its product in the warehouse, counter and shelf reachable
RestockDue(k) ==
    /\ k \in DOMAIN shelf_stocks
    /\ shelf_stocks[k].cards = <<>>
    /\ shelf_stocks[k].product \in Range(Products)
    /\ shelf_stocks[k].qty < shelf_stocks[k].max_qty
    /\ HasSource(shelf_stocks[k].product, inventory)
    /\ StaffCanReachBeside(CounterTile)
    /\ StaffCanReachBeside(k)

\* C5: from any reachable staff state, if a shelf holds a bulk product with
\* qty < max_qty, the warehouse holds a unit of that product, counter and
\* shelf are reachable and only update_staff runs, then repeated update_staff
\* ticks eventually increase that shelf's qty.
StaffEventuallyRestocks ==
    \A k \in {ShelfA, ShelfB} : \A q \in 0 .. ShelfMax :
        (RestockDue(k) /\ shelf_stocks[k].qty = q)
            ~> (k \in DOMAIN shelf_stocks /\ shelf_stocks[k].qty > q)

----------------------------------------------------------------------------
(* game/scenes/shop_scene.py: customers and purchases                      *)

\* CUSTOMER_SPEED_TILES_PER_S = 1.4, in position units per time unit
CustomerSpeedUnits == 7
\* "direction.length() > 1" pixel of a 48-pixel tile, squared, in position units
CustomerArriveDist2 == 4
\* random.uniform over CUSTOMER_BROWSE_TIME_RANGE and CUSTOMER_PAY_TIME_RANGE:
\* the two ends of each range
BrowseTimes == {12, 28}
PayTimes == {5, 14}

NoPurchase == [shelf_key |-> NoKey, product |-> "none"]

\* Customer(entrance, target, "to_shelf", ...)
Customer(pos, target) ==
    [pos |-> pos, target |-> target, state |-> "to_shelf", purchase |-> NoPurchase,
     done |-> FALSE, wait_s |-> 0]

\* _spawn_customer: the entrance; _move_customer: the exit position
EntrancePos == <<(3 * TileUnits) \div 2, (GridH - 1) * TileUnits>>
ExitPos == <<(3 * TileUnits) \div 2, GridH * TileUnits - TileUnits \div 2>>

\* _choose_shelf_purchase: the stocked (key, product) pairs in shelf order;
\* every weight of choose_purchase is at least 0.2, so any of them can be
\* drawn (the one numbered choice here); None when nothing is stocked
AvailableShelves(stocks) ==
    SelectSeq(AllShelfKeys,
              LAMBDA k : /\ k \in DOMAIN stocks
                         /\ stocks[k].qty > 0
                         /\ stocks[k].product # "empty")

ChooseShelfPurchase(stocks, choice) ==
    LET available == AvailableShelves(stocks)
    IN IF available = <<>> THEN NoPurchase
       ELSE LET k == available[((choice - 1) % Len(available)) + 1]
            IN [shelf_key |-> k, product |-> stocks[k].product]

\* list.remove(x): drop the first occurrence of x
RemoveFirst(cards, x) ==
    LET i == CHOOSE i \in 1 .. Len(cards) :
                 cards[i] = x /\ \A j \in 1 .. i - 1 : cards[j] # x
    IN SubSeq(cards, 1, i - 1) \o SubSeq(cards, i + 1, Len(cards))

\* the decrement of _process_purchase for a product that is not a listed
\* single: stock.qty -= 1
SellOne(qty) == qty - 1

\* a sold-out shelf that forgets what it sold
SoldOutEmptied(stock) == [stock EXCEPT !.qty = 0, !.cards = <<>>, !.product = "empty"]

\* _process_purchase, "if stock.qty <= 0": qty is 0, the cards are cleared and
\* the shelf keeps "the last product type so staff can restock it"
SoldOut(stock) == [stock EXCEPT !.qty = 0, !.cards = <<>>]

\* _process_purchase(purchase); pick is the index drawn by rng.choice(stock.cards)
ProcessPurchase(purchase, stocks, st, pick) ==
    LET key == purchase.shelf_key
        same == [shelf_stocks |-> stocks, staff |-> st]
    IN IF key \notin DOMAIN stocks THEN same
       ELSE IF stocks[key].qty <= 0 THEN same
       ELSE LET stock == stocks[key]
                listed == IsSingle(purchase.product) /\ stock.cards # <<>>
                cards1 == IF listed
                          THEN RemoveFirst(stock.cards,
                                           stock.cards[((pick - 1) % Len(stock.cards)) + 1])
                          ELSE stock.cards
                qty1 == IF listed THEN Len(cards1) ELSE SellOne(stock.qty)
                stock2 == IF qty1 <= 0
                          THEN SoldOut(stock)
                          ELSE [stock EXCEPT !.qty = qty1, !.cards = cards1]
            IN [shelf_stocks |-> [stocks EXCEPT ![key] = stock2],
                staff |-> NotifyShelfChange(st, key)]

\* pos += direction.normalize() * speed * dt
CustomerStep(pos, target, step) ==
    LET dx == target[1] - pos[1]
        dy == target[2] - pos[2]
    IN IF dy = 0 THEN <<pos[1] + (IF dx > 0 THEN step ELSE -step), pos[2]>>
       ELSE IF dx = 0 THEN <<pos[1], pos[2] + (IF dy > 0 THEN step ELSE -step)>>
       ELSE LET dist == Isqrt(dx * dx + dy * dy) IN
            <<pos[1] + RoundDiv(dx * step, dist), pos[2] + RoundDiv(dy * step, dist)>>

\* _move_customer(customer, dt); draw holds this call's random draws: browse
\* and pay times, the number of the purchase chosen and the index of the card sold
MoveCustomer(c, dt, draw, stocks, st) ==
    LET same == [c |-> c, shelf_stocks |-> stocks, staff |-> st]
        dx == c.target[1] - c.pos[1]
        dy == c.target[2] - c.pos[2]
    IN IF c.wait_s > 0 THEN [same EXCEPT !.c.wait_s = Max(0, c.wait_s - dt)]
       ELSE IF dx * dx + dy * dy > CustomerArriveDist2
       THEN [same EXCEPT !.c.pos = CustomerStep(c.pos, c.target, CustomerSpeedUnits * dt)]
       ELSE IF c.state = "to_shelf"
       THEN [same EXCEPT !.c = [c EXCEPT !.wait_s = draw.browse,
                                         !.target = TileCenter(CounterTile),
                                         !.state = "to_counter",
                                         !.purchase = ChooseShelfPurchase(stocks, draw.choice)]]
       ELSE IF c.state = "to_counter"
       THEN [same EXCEPT !.c = [c EXCEPT !.wait_s = draw.pay, !.state = "paying"]]
       ELSE IF c.state = "paying"
       THEN LET r == IF c.purchase # NoPurchase
                     THEN ProcessPurchase(c.purchase, stocks, st, draw.pick)
                     ELSE [shelf_stocks |-> stocks, staff |-> st]
            IN [c |-> [c EXCEPT !.target = ExitPos, !.state = "exit"],
                shelf_stocks |-> r.shelf_stocks, staff |-> r.staff]
       ELSE IF c.state = "exit"
       THEN [same EXCEPT !.c.done = TRUE]
       ELSE same

\* the random draws the _move_customer call on customer c makes in the given
\* shop: a browse time and a purchase on reaching the shelf, a pay time on
\* reaching the counter, a card index when paying
Draws(c, stocks) ==
    LET dx == c.target[1] - c.pos[1]
        dy == c.target[2] - c.pos[2]
        arrived == c.wait_s <= 0 /\ dx * dx + dy * dy <= CustomerArriveDist2
    IN [browse : IF arrived /\ c.state = "to_shelf" THEN BrowseTimes ELSE {0},
        choice : IF arrived /\ c.state = "to_shelf"
                 THEN 1 .. Max(1, Len(AvailableShelves(stocks))) ELSE {1},
        pay : IF arrived /\ c.state = "to_counter" THEN PayTimes ELSE {0},
        pick : IF arrived /\ c.state = "paying" THEN 1 .. ShelfMax ELSE {1}]

----------------------------------------------------------------------------
(* game/scenes/shop_scene.py: the player's shelf handlers                  *)

VARIABLE customers

\* the amount a bulk product has in the inventory
InvAvailable(inv, product) ==
    IF product = "booster" THEN inv.booster_packs
    ELSE IF product = "deck" THEN inv.decks
    ELSE inv.singles[RarityOf(product)]

InvTake(inv, product, n) ==
    IF product = "booster" THEN [inv EXCEPT !.booster_packs = @ - n]
    ELSE IF product = "deck" THEN [inv EXCEPT !.decks = @ - n]
    ELSE [inv EXCEPT !.singles[RarityOf(product)] = @ - n]

\* to_add of _stock_shelf: the amount asked for, capped by the shelf's free
\* capacity and by what the inventory holds
StockToAdd(amount, capacity, available) == Min(Min(amount, capacity), available)

\* _stock_shelf(amount) with the shelf key and the product selected in the UI
StockShelf(key, product, amount) ==
    LET shelf == shelf_stocks[key]
        capacity == shelf.max_qty - shelf.qty
        to_add == StockToAdd(amount, capacity, InvAvailable(inventory, product))
    IN /\ key \in DOMAIN shelf_stocks
       /\ shelf.cards = <<>>
       /\ capacity > 0
       /\ to_add > 0
       /\ inventory' = InvTake(inventory, product, to_add)
       /\ shelf_stocks' = [shelf_stocks EXCEPT ![key] =
                              [shelf EXCEPT !.product = product, !.cards = <<>>,
                                            !.qty = @ + to_add]]
       /\ UNCHANGED <<collection, deck, staff, customers>>

\* the amounts of the "Stock 1", "Stock 5" and fill buttons
StockAmounts(key) == {1, 5, shelf_stocks[key].max_qty - shelf_stocks[key].qty}

\* _can_list_selected_card_to_shelf with the shelf and card selected in the UI
CanListSelectedCardToShelf(key, cid) ==
    /\ key \in DOMAIN shelf_stocks
    /\ LET shelf == shelf_stocks[key]
           product == SingleProduct(CardRarity(cid))
       IN /\ shelf.qty < shelf.max_qty
          /\ collection[cid] > deck[cid]
          /\ ~(shelf.qty > 0 /\ shelf.cards = <<>>)
          /\ ~(shelf.qty > 0 /\ shelf.product # product)

\* _list_selected_card_to_shelf
ListSelectedCardToShelf(key, cid) ==
    /\ CanListSelectedCardToShelf(key, cid)
    /\ CollectionCanRemove(collection, cid, 1)
    /\ collection' = CollectionRemove(collection, cid, 1)
    /\ shelf_stocks' = [shelf_stocks EXCEPT ![key] =
                           [@ EXCEPT !.cards = Append(@, cid),
                                     !.product = SingleProduct(CardRarity(cid)),
                                     !.qty = Len(shelf_stocks[key].cards) + 1]]
    /\ UNCHANGED <<inventory, deck, staff, customers>>

\* _spawn_customer: the new customer heads for a shelf drawn at random
SpawnCustomer(shelf) ==
    /\ shelf \in DOMAIN shelf_stocks
    /\ customers' = Append(customers, Customer(EntrancePos, TileCenter(shelf)))
    /\ UNCHANGED <<shelf_stocks, inventory, collection, deck, staff>>

\* one _move_customer call on customer i, as the loop of _update_day makes it
MoveOneCustomer(i, dt) ==
    /\ i \in 1 .. Len(customers)
    /\ ~customers[i].done
    /\ \E draw \in Draws(customers[i], shelf_stocks) :
          LET r == MoveCustomer(customers[i], dt, draw, shelf_stocks, staff)
          IN /\ customers' = [customers EXCEPT ![i] = r.c]
             /\ shelf_stocks' = r.shelf_stocks
             /\ staff' = r.staff
    /\ UNCHANGED <<inventory, collection, deck>>

----------------------------------------------------------------------------
(* The open shop: customers, the staff and the player's shelf handlers     *)

MaxCustomers == 2
\* the dt of the update calls: 0.35 s
ShopDTs == {7}

\* C1: under any interleaving of customer purchases, staff stocking steps,
\* manual stocking and listing a card on a shelf, every shelf has
\* 0 <= qty <= max_qty, and when its cards list is non-empty qty equals the
\* number of listed cards.
ShelfQtyMatchesCards ==
    \A k \in DOMAIN shelf_stocks :
        /\ 0 <= shelf_stocks[k].qty
        /\ shelf_stocks[k].qty <= shelf_stocks[k].max_qty
        /\ shelf_stocks[k].cards # <<>> => shelf_stocks[k].qty = Len(shelf_stocks[k].cards)

----------------------------------------------------------------------------
(* game/core/app.py, game/sim/inventory.py: pending orders                 *)

\* order_log, applied and op are history variables: every order ever
\* appended (an order's id is its index), how often and when each was
\* applied to the inventory, and the last operation performed
VARIABLES pending_orders, time_seconds, order_log, applied, op
orderVars == <<pending_orders, time_seconds, order_log, applied, op>>

MaxOrders == 2
MaxTime == 900
\* the steps by which time_seconds advances between two looks at the orders
TimeSteps == {100, 200}

\* time_seconds + 30.0
OrderDelay == 600

\* InventoryOrder(boosters, decks, singles, cost, arrival_day, deliver_at)
InventoryOrder(boosters, decks, singles, deliver_at, id) ==
    [boosters |-> boosters, decks |-> decks, singles |-> singles,
     deliver_at |-> deliver_at, id |-> id]

\* Inventory.apply_order
ApplyOrder(inv, order) ==
    [booster_packs |-> inv.booster_packs + order.boosters,
     decks |-> inv.decks + order.decks,
     singles |-> [r \in RaritySet |-> inv.singles[r] + order.singles[r]]]

RECURSIVE ApplyOrders(_, _)
ApplyOrders(inv, orders) ==
    IF orders = <<>> THEN inv
    ELSE ApplyOrders(ApplyOrder(inv, Head(orders)), Tail(orders))

\* "deliver_at <= now" of process_pending_orders
OrderDue(order, now) == order.deliver_at <= now

\* the list process_pending_orders stores back: the orders not yet due
RemainingAll(orders, now) == orders

RemainingOrders(orders, now) == SelectSeq(orders, LAMBDA o : ~OrderDue(o, now))

\* GameApp.process_pending_orders
ProcessPendingOrders(orders, inv, now) ==
    [inventory |-> ApplyOrders(inv, SelectSeq(orders, LAMBDA o : OrderDue(o, now))),
     pending_orders |-> RemainingOrders(orders, now)]

\* the applied history after a pass over the given orders at time now
AppliedAfter(orders, now) ==
    [id \in DOMAIN applied |->
        LET n == Cardinality({i \in 1 .. Len(orders) :
                                 orders[i].id = id /\ OrderDue(orders[i], now)})
        IN IF n = 0 THEN applied[id]
           ELSE [count |-> applied[id].count + n, at |-> now]]

ProcessOrdersPass ==
    LET r == ProcessPendingOrders(pending_orders, inventory, time_seconds)
    IN /\ inventory' = r.inventory
       /\ pending_orders' = r.pending_orders
       /\ applied' = AppliedAfter(pending_orders, time_seconds)
       /\ op' = "process"
       /\ UNCHANGED <<time_seconds, order_log>>

\* pending_orders.append(order)
AppendOrder(boosters, decks, singles, deliver_at) ==
    LET order == InventoryOrder(boosters, decks, singles, deliver_at, Len(order_log) + 1)
    IN /\ Len(order_log) < MaxOrders
       /\ pending_orders' = Append(pending_orders, order)
       /\ order_log' = Append(order_log, order)
       /\ applied' = Append(applied, [count |-> 0, at |-> -1])
       /\ op' = "append"
       /\ UNCHANGED <<time_seconds, inventory>>

\* _order_boosters, _order_decks, _order_singles_current: 12 boosters, 4 decks
\* or 10 singles of the selected rarity, delivered 30 s from now
PlaceOrder(product) ==
    AppendOrder(IF product = "booster" THEN 12 ELSE 0,
                IF product = "deck" THEN 4 ELSE 0,
                IF IsSingle(product)
                THEN [EmptySingles EXCEPT ![RarityOf(product)] = 10] ELSE EmptySingles,
                time_seconds + OrderDelay)

\* an order restored by InventoryOrder.from_dict: five boosters due at 10 s,
\* or with no deliver_at (0.0)
LoadOrder(deliver_at) == AppendOrder(5, 0, EmptySingles, deliver_at)

AdvanceTime(d) ==
    /\ time_seconds + d <= MaxTime
    /\ time_seconds' = time_seconds + d
    /\ op' = "advance"
    /\ UNCHANGED <<pending_orders, order_log, applied, inventory>>

IsPending(id) == \E i \in 1 .. Len(pending_orders) : pending_orders[i].id = id

\* C4: every pending order is applied to the inventory exactly once: never
\* while time_seconds < deliver_at, at the first process_pending_orders pass
\* with deliver_at <= time_seconds, and it leaves pending_orders in that same
\* pass, so the inventory grows by exactly the order's contents, never twice.
OrdersAppliedExactlyOnce ==
    /\ \A id \in 1 .. Len(order_log) :
          /\ applied[id].count <= 1
          /\ IsPending(id) => applied[id].count = 0
          /\ ~IsPending(id) =>
                applied[id].count = 1 /\ applied[id].at >= order_log[id].deliver_at
          /\ (op = "process" /\ IsPending(id)) => order_log[id].deliver_at > time_seconds
    /\ inventory = ApplyOrders(Inventory(0, 0, EmptySingles),
                               SelectSeq(order_log, LAMBDA o : ~IsPending(o.id)))

\* a pass that delivered one order exactly when it fell due and kept another
OrderDeliveredOthersKept ==
    /\ op = "process"
    /\ \E id \in 1 .. Len(order_log) :
          /\ ~IsPending(id)
          /\ order_log[id].deliver_at > 0
          /\ applied[id].at = order_log[id].deliver_at
    /\ \E id \in 1 .. Len(order_log) : IsPending(id)

----------------------------------------------------------------------------
(* game/scenes/shop_scene.py: selling back and opening packs               *)

VARIABLES sell_pending, pack_open_queue, pack_anim_active
uiVars == <<sell_pending, pack_open_queue, pack_anim_active>>

\* _sell_pending = None
NoSell == [type |-> "none", key |-> "none", qty |-> 0]

\* the amount of a booster or deck sale: the queued quantity capped by what
\* the inventory holds when the sale is confirmed
SellQtyQueued(qty, available) == qty

SellQty(qty, available) == Min(qty, available)

\* _queue_sell_items(qty) with sell_item = key ("booster" or "deck")
QueueSellItems(key, qty) ==
    LET q == Max(0, Min(qty, InvAvailable(inventory, key)))
    IN /\ q > 0
       /\ sell_pending' = [type |-> "items", key |-> key, qty |-> q]
       /\ UNCHANGED <<inventory, collection, pack_open_queue, pack_anim_active>>

\* _confirm_sell_pending for a pending sale of boosters or decks
ConfirmSellPending ==
    LET q == SellQty(sell_pending.qty, InvAvailable(inventory, sell_pending.key))
    IN /\ sell_pending # NoSell
       /\ sell_pending' = NoSell
       /\ inventory' = IF q <= 0 THEN inventory
                       ELSE InvTake(inventory, sell_pending.key, q)
       /\ UNCHANGED <<collection, pack_open_queue, pack_anim_active>>

\* the amounts of the "Sell x1", "Sell x5" and sell-all buttons
SellAmounts(available) == {1, 5, available}

\* pack.open_booster: three commons, an uncommon and a rare of the cards kept
PackDraws == {<<"c1", "c1", "c2", "u1", "r1">>, <<"c1", "c2", "c2", "u1", "r1">>}

RECURSIVE CollectionAddAll(_, _)
CollectionAddAll(coll, cards) ==
    IF cards = <<>> THEN coll
    ELSE CollectionAddAll([coll EXCEPT ![Head(cards)] = @ + 1], Tail(cards))

\* "inventory.booster_packs = max(0, inventory.booster_packs - 1)"
PacksAfterOpen(packs) == Max(0, packs - 1)

\* the guard of _start_next_pack_open on the packs left
NoPacksLeft(packs) == packs <= 0

\* _start_next_pack_open with the booster pack type selected
StartNextPackOpen(queue, inv, coll, active, draw) ==
    LET same == [pack_open_queue |-> queue, inventory |-> inv, collection |-> coll,
                 pack_anim_active |-> active]
    IN IF queue <= 0 THEN same
       ELSE IF NoPacksLeft(inv.booster_packs) THEN [same EXCEPT !.pack_open_queue = 0]
       ELSE [pack_open_queue |-> queue - 1,
             inventory |-> [inv EXCEPT !.booster_packs = PacksAfterOpen(@)],
             collection |-> CollectionAddAll(coll, draw),
             pack_anim_active |-> TRUE]

\* _queue_open_selected_packs(count): queue the openings and start the first
\* one when no opening animation is playing
QueueOpenSelectedPacks(count) ==
    LET free == Max(0, inventory.booster_packs - pack_open_queue)
        queue == pack_open_queue + Min(count, free)
    IN /\ count > 0
       /\ free > 0
       /\ \E draw \in PackDraws :
             LET r == IF pack_anim_active
                      THEN [pack_open_queue |-> queue, inventory |-> inventory,
                            collection |-> collection, pack_anim_active |-> TRUE]
                      ELSE StartNextPackOpen(queue, inventory, collection, FALSE, draw)
             IN /\ pack_open_queue' = r.pack_open_queue
                /\ inventory' = r.inventory
                /\ collection' = r.collection
                /\ pack_anim_active' = r.pack_anim_active
       /\ UNCHANGED sell_pending

\* the pack part of ShopScene.update on the packs tab: a playing animation
\* runs to its end; with none playing the next queued pack is opened
UpdatePackAnim ==
    /\ pack_anim_active \/ pack_open_queue > 0
    /\ \E draw \in PackDraws :
          LET r == IF pack_anim_active
                   THEN [pack_open_queue |-> pack_open_queue, inventory |-> inventory,
                         collection |-> collection, pack_anim_active |-> FALSE]
                   ELSE StartNextPackOpen(pack_open_queue, inventory, collection,
                                          FALSE, draw)
          IN /\ pack_open_queue' = r.pack_open_queue
             /\ inventory' = r.inventory
             /\ collection' = r.collection
             /\ pack_anim_active' = r.pack_anim_active
    /\ UNCHANGED sell_pending

\* C2: starting from a non-negative inventory, after any sequence of staff
\* counter pickups, manual shelf stocking, sellback confirmations, pack
\* openings and order deliveries, booster_packs, decks and every
\* singles[rarity] of the inventory are non-negative integers.
InventoryNonNegative ==
    /\ inventory.booster_packs \in Nat
    /\ inventory.decks \in Nat
    /\ \A r \in RaritySet : inventory.singles[r] \in Nat

\* the warehouse has been emptied by sales, stocking and pickups after an
\* order was delivered and a pack opened
WarehouseEmptiedAfterDelivery ==
    /\ inventory = Inventory(0, 0, EmptySingles)
    /\ \E id \in 1 .. Len(order_log) : applied[id].count = 1
    /\ collection["u1"] > 0
    /\ staff.carry_boosters + staff.carry_decks + CarrySinglesTotal(staff) > 0
    /\ \E k \in DOMAIN shelf_stocks : shelf_stocks[k].qty > 0

----------------------------------------------------------------------------
(* game/core/app.py, game/scenes/shop_scene.py: the frame loop and the     *)
(* day/night cycle                                                         *)

\* tick_log is a history variable: the steps the last frame ran, in order
VARIABLES cycle_active, cycle_paused, cycle_phase, phase_timer, spawned,
          customer_schedule, day, tick_log
cycleVars == <<cycle_active, cycle_paused, cycle_phase, phase_timer, spawned,
               customer_schedule, day, tick_log>>

\* the model's day and night are 12 s and 1 s long (300 s and 60 s in
\* config.py), and the model stops when day MaxDay has ended
DayDuration == 240
NightDuration == 20
MaxDay == 1
\* the frames the player may let pass before starting the first day
MaxIdleFrames == 2

\* dt = min(dt, 1 / 20)
FrameDt == 1
MAX_CUSTOMERS_SPAWNED_PER_DAY == 14
MAX_CUSTOMERS_ACTIVE == 10
\* CUSTOMER_SPAWN_RETRY_DELAY_SECONDS = 0.75
SpawnRetryDelay == 15

\* config.py, in units of 0.05 s: 7.0 s, 4.2 s, and the days of the ramp
CUSTOMER_SPAWN_INTERVAL_START == 140
CUSTOMER_SPAWN_INTERVAL_MIN == 84
CUSTOMER_SPAWN_RAMP_DAYS == 14

\* "if t < 0.0: t = 0.0; if t > 1.0: t = 1.0", t held as the numerator of
\* t = n / ramp
RampUnclamped(n, ramp) == n

RampClamped(n, ramp) == IF n < 0 THEN 0 ELSE IF n > ramp THEN ramp ELSE n

\* economy.customer_spawn_interval: start + (end - start) * t with
\* t = (d - 1) / ramp clamped to [0, 1]; with the configured values
\* (end - start) / ramp is a whole number of units, so the division is exact
CustomerSpawnInterval(d) ==
    LET on_d == Max(1, d)
        ramp == Max(1, CUSTOMER_SPAWN_RAMP_DAYS)
        n == RampClamped(on_d - 1, ramp)
        start == CUSTOMER_SPAWN_INTERVAL_START
        end == IF CUSTOMER_SPAWN_INTERVAL_MIN > start THEN start
               ELSE CUSTOMER_SPAWN_INTERVAL_MIN
    IN start + ((end - start) * n) \div ramp

RECURSIVE ScheduleFrom(_, _, _)
ScheduleFrom(t, effective, sched) ==
    IF t < DayDuration /\ Len(sched) < MAX_CUSTOMERS_SPAWNED_PER_DAY
    THEN ScheduleFrom(t + effective, effective, Append(sched, t))
    ELSE sched

\* the customer_schedule built by _begin_day_phase
SpawnSchedule(d) ==
    LET effective == Max(CustomerSpawnInterval(d),
                         DayDuration \div (MAX_CUSTOMERS_SPAWNED_PER_DAY + 1))
    IN ScheduleFrom(effective, effective, <<>>)

\* The simulation state a frame works on, as a record g with the fields
\* shelf_stocks, inventory, collection, staff, customers, pending_orders,
\* cycle_phase, phase_timer, spawned, customer_schedule, day and log.

\* _begin_day_phase
BeginDayPhase(g) ==
    [g EXCEPT !.cycle_phase = "day", !.phase_timer = 0, !.customers = <<>>,
              !.spawned = 0, !.customer_schedule = SpawnSchedule(g.day)]

\* _begin_night_phase
BeginNightPhase(g) ==
    [g EXCEPT !.cycle_phase = "night", !.phase_timer = 0, !.customers = <<>>,
              !.spawned = 0, !.customer_schedule = <<>>]

\* the customer loop of _update_day: customers that are not done move in
\* list order, customer i with its own random draws
\* the simulation state after customer i moved with the result r
CustomerMoved(g, i, r) ==
    [g EXCEPT !.customers[i] = r.c, !.shelf_stocks = r.shelf_stocks, !.staff = r.staff]

RECURSIVE MoveCustomers(_, _, _, _)
MoveCustomers(g, i, dt, draws) ==
    IF i > Len(g.customers) THEN g
    ELSE IF g.customers[i].done THEN MoveCustomers(g, i + 1, dt, draws)
    ELSE MoveCustomers(CustomerMoved(g, i, MoveCustomer(g.customers[i], dt, draws[i],
                                                        g.shelf_stocks, g.staff)),
                       i + 1, dt, draws)

\* the spawn pacing of _update_day (MAX_CUSTOMER_SPAWNS_PER_FRAME = 1): the
\* next scheduled customer is spawned towards the shelf drawn, or its time is
\* pushed back when the shop is full or has no shelves
SpawnDue(g, shelf) ==
    LET active == Cardinality({i \in 1 .. Len(g.customers) : ~g.customers[i].done})
        next == g.spawned + 1
    IN IF ~(g.spawned < Len(g.customer_schedule)) THEN g
       ELSE IF ~(g.phase_timer >= g.customer_schedule[next]) THEN g
       ELSE IF active >= MAX_CUSTOMERS_ACTIVE \/ DOMAIN g.shelf_stocks = {}
       THEN [g EXCEPT !.customer_schedule[next] = g.phase_timer + SpawnRetryDelay]
       ELSE [g EXCEPT !.customers = Append(@, Customer(EntrancePos, TileCenter(shelf))),
                      !.spawned = @ + 1]

\* the simulation state after update_staff returned r (it mutates the staff,
\* the shelves, the inventory and the collection in place)
StaffUpdated(g, r) ==
    [g EXCEPT !.staff = r.st, !.shelf_stocks = r.shelf_stocks,
              !.inventory = r.inventory, !.collection = r.collection]

\* the update_staff call of _update_day
StaffUpdate(g, dt) ==
    StaffUpdated(g, UpdateStaff(g.staff, dt, SHOP_GRID,
                                DOMAIN g.shelf_stocks \cup {CounterTile}, CounterTile,
                                SelectSeq(AllShelfKeys, LAMBDA k : k \in DOMAIN g.shelf_stocks),
                                g.shelf_stocks, g.inventory, g.collection, deck))

\* _update_day(dt)
UpdateDay(g, dt, draws, shelf) ==
    LET g1 == MoveCustomers([g EXCEPT !.log = Append(@, "customers")], 1, dt, draws)
        g2 == SpawnDue(g1, shelf)
    IN StaffUpdate([g2 EXCEPT !.log = Append(@, "staff")], dt)

\* "if self.phase_timer >= self.day_duration: self._begin_night_phase()"
DayTransition(g) ==
    IF g.phase_timer >= DayDuration
    THEN BeginNightPhase([g EXCEPT !.log = Append(@, "transition")])
    ELSE g

\* the two statements of the day branch of _update_cycle, in program order
DayPhaseStepsTransitionFirst == <<"transition", "update">>

DayPhaseSteps == <<"update", "transition">>

RECURSIVE RunDaySteps(_, _, _, _, _)
RunDaySteps(g, steps, dt, draws, shelf) ==
    IF steps = <<>> THEN g
    ELSE RunDaySteps(IF Head(steps) = "update" THEN UpdateDay(g, dt, draws, shelf)
                     ELSE DayTransition(g),
                     Tail(steps), dt, draws, shelf)

\* the phase branches of _update_cycle, after the timer advanced
UpdatePhase(g, dt, draws, shelf) ==
    IF g.cycle_phase = "day" THEN RunDaySteps(g, DayPhaseSteps, dt, draws, shelf)
    ELSE IF g.phase_timer >= NightDuration
    THEN BeginDayPhase([g EXCEPT !.day = @ + 1, !.log = Append(@, "transition")])
    ELSE g

\* _update_cycle(dt)
UpdateCycle(g, dt, draws, shelf) ==
    UpdatePhase([g EXCEPT !.phase_timer = @ + dt, !.log = Append(@, "timer")],
                dt, draws, shelf)

\* "sim_paused = shop.cycle_active and shop.cycle_paused" of GameApp.run
SimPausedNever(active, paused) == FALSE

SimPaused(active, paused) == active /\ paused

\* "if self.cycle_active and not self.cycle_paused" of ShopScene.update
CycleRuns(active, paused) == active /\ ~paused

\* start_day and end_day, the handlers of the Start and Stop buttons, run by
\* _handle_events; any other frame handles no event
HandleEvent(event, active, paused, g) ==
    IF event = "start_day"
    THEN IF ~active
         THEN [active |-> TRUE, paused |-> FALSE, g |-> BeginDayPhase(g)]
         ELSE [active |-> active, paused |-> FALSE, g |-> g]
    ELSE IF event = "end_day"
    THEN [active |-> active, paused |-> IF active THEN TRUE ELSE paused, g |-> g]
    ELSE [active |-> active, paused |-> paused, g |-> g]

\* every random draw a customer can make
AllDraws ==
    [browse : BrowseTimes \cup {0}, choice : 1 .. Len(AllShelfKeys),
     pay : PayTimes \cup {0}, pick : 1 .. ShelfMax]

\* the draws of one frame, one record for each customer
FrameDraws ==
    {f \in [1 .. Len(customers) -> AllDraws] :
        \A i \in 1 .. Len(customers) : f[i] \in Draws(customers[i], shelf_stocks)}

\* the shelves a customer spawned in this frame can head for
SpawnShelves ==
    IF /\ cycle_phase = "day"
       /\ spawned < Len(customer_schedule)
       /\ phase_timer + FrameDt >= customer_schedule[spawned + 1]
       /\ DOMAIN shelf_stocks # {}
    THEN DOMAIN shelf_stocks
    ELSE {ShelfA}

\* "if sim_dt > 0: self.process_pending_orders()" of GameApp.run
DeliverOrders(g, sim_dt, now) ==
    IF sim_dt > 0
    THEN LET r == ProcessPendingOrders(g.pending_orders, g.inventory, now)
         IN [g EXCEPT !.inventory = r.inventory, !.pending_orders = r.pending_orders,
                      !.log = Append(@, "orders")]
    ELSE g

\* ShopScene.update(dt): the cycle is updated unless inactive or paused
SceneUpdate(runs, g, dt, draws, shelf) ==
    IF runs THEN UpdateCycle(g, dt, draws, shelf) ELSE g

\* the simulation state a frame leaves behind
FrameResult(g) ==
    /\ shelf_stocks' = g.shelf_stocks
    /\ inventory' = g.inventory
    /\ collection' = g.collection
    /\ staff' = g.staff
    /\ customers' = g.customers
    /\ pending_orders' = g.pending_orders
    /\ cycle_phase' = g.cycle_phase
    /\ phase_timer' = g.phase_timer
    /\ spawned' = g.spawned
    /\ customer_schedule' = g.customer_schedule
    /\ day' = g.day
    /\ tick_log' = g.log

\* one iteration of the loop of GameApp.run with the shop scene current: the
\* pause flag is sampled, the event is handled, the clock advances and the due
\* orders are delivered unless the sample said paused, then ShopScene.update
\* runs the cycle unless it is inactive or paused
Frame(event) ==
    \E draws \in FrameDraws, shelf \in SpawnShelves :
        LET g0 == [shelf_stocks |-> shelf_stocks, inventory |-> inventory,
                   collection |-> collection, staff |-> staff, customers |-> customers,
                   pending_orders |-> pending_orders, cycle_phase |-> cycle_phase,
                   phase_timer |-> phase_timer, spawned |-> spawned,
                   customer_schedule |-> customer_schedule, day |-> day, log |-> <<>>]
            sim_paused == SimPaused(cycle_active, cycle_paused)
            e == HandleEvent(event, cycle_active, cycle_paused, g0)
            sim_dt == IF sim_paused THEN 0 ELSE FrameDt
            now == time_seconds + sim_dt
            g1 == DeliverOrders(e.g, sim_dt, now)
        IN /\ day <= MaxDay
           /\ cycle_active \/ event = "start_day" \/ time_seconds < MaxIdleFrames
           /\ time_seconds' = now
           /\ applied' = IF sim_dt > 0 THEN AppliedAfter(pending_orders, now) ELSE applied
           /\ op' = IF sim_dt > 0 THEN "process" ELSE "advance"
           /\ cycle_active' = e.active
           /\ cycle_paused' = e.paused
           /\ FrameResult(SceneUpdate(CycleRuns(e.active, e.paused), g1, FrameDt, draws,
                                      shelf))
           /\ UNCHANGED <<deck, order_log>>

StepRank(s) ==
    CASE s = "orders" -> 1
      [] s = "timer" -> 2
      [] s = "customers" -> 3
      [] s = "staff" -> 4
      [] s = "transition" -> 5

\* C8 as stated: within every tick the order delivery comes first, then the
\* phase timer advance together with any phase transition it triggers, then
\* the staff and customer updates; no staff or customer update of a tick
\* runs before that tick's phase transition is decided.
TransitionBeforeUpdates ==
    \A i \in DOMAIN tick_log : \A j \in DOMAIN tick_log :
        (/\ tick_log[i] \in {"customers", "staff"}
         /\ tick_log[j] \in {"orders", "timer", "transition"}) => j < i

\* C8 as the code has it: within every tick the order delivery comes first,
\* then the phase timer advance, then the customer and staff updates of a
\* day tick, and only then the decision to end the day; a night tick updates
\* neither staff nor customers. No staff or customer update of a tick runs
\* before that tick's due orders are applied.
UpdatesBeforeTransition ==
    /\ \A i \in DOMAIN tick_log : \A j \in DOMAIN tick_log :
          i < j => StepRank(tick_log[i]) < StepRank(tick_log[j])
    /\ \A i \in DOMAIN tick_log :
          tick_log[i] \in {"customers", "staff"} =>
              \E j \in DOMAIN tick_log : tick_log[j] = "timer"
    /\ (\E i \in DOMAIN tick_log : tick_log[i] = "staff") =>
          \A i \in 1 .. Len(pending_orders) :
              pending_orders[i].deliver_at > time_seconds

\* the tick that ends the day: customers and staff were updated, then night
\* began
DayEndedAfterUpdates ==
    /\ tick_log = <<"orders", "timer", "customers", "staff", "transition">>
    /\ cycle_phase = "night"

----------------------------------------------------------------------------
(* game/sim/skill_tree.py: ranking up a skill                              *)

\* rank_call is a history variable: the skill of the last rank_up call, the
\* value it returned and the parity of the number of calls
VARIABLES ranks, skill_points, level, rank_call
skillVars == <<ranks, skill_points, level, rank_call>>

\* _dirty and _cached_mods of SkillTreeState; mods_out is a history variable:
\* the value the last modifiers() call returned and the parity of the calls
VARIABLES mods_dirty, cached_mods, mods_out
modVars == <<mods_dirty, cached_mods, mods_out>>

\* the battle branch of default_skill_tree and the root of its commerce spine
Skills == {"sparring", "tactics", "champion", "battle_grind", "legend", "haggle"}

SkillPrereq(skill_id, rank) == [skill_id |-> skill_id, rank |-> rank]

SkillNodeDef(max_rank, level_req, prereqs) ==
    [max_rank |-> max_rank, level_req |-> level_req, prereqs |-> prereqs]

SkillTree ==
    [s \in Skills |->
        CASE s = "sparring" -> SkillNodeDef(5, 1, <<>>)
          [] s = "tactics" -> SkillNodeDef(5, 4, <<SkillPrereq("sparring", 2)>>)
          [] s = "champion" -> SkillNodeDef(5, 10, <<SkillPrereq("tactics", 3)>>)
          [] s = "battle_grind" -> SkillNodeDef(10, 11, <<SkillPrereq("tactics", 2)>>)
          [] s = "legend" -> SkillNodeDef(10, 25, <<SkillPrereq("champion", 3),
                                                     SkillPrereq("battle_grind", 5)>>)
          [] s = "haggle" -> SkillNodeDef(10, 1, <<>>)]

\* Modifiers, its fractions in thousandths (0.01 is 10)
Modifiers(sell_price_pct, sales_xp_pct, battle_xp_pct, fixture_discount_pct) ==
    [sell_price_pct |-> sell_price_pct, sales_xp_pct |-> sales_xp_pct,
     battle_xp_pct |-> battle_xp_pct, fixture_discount_pct |-> fixture_discount_pct]

NoModifiers == Modifiers(0, 0, 0, 0)

\* Modifiers.__add__ and Modifiers.scale
ModAdd(a, b) ==
    Modifiers(a.sell_price_pct + b.sell_price_pct, a.sales_xp_pct + b.sales_xp_pct,
              a.battle_xp_pct + b.battle_xp_pct,
              a.fixture_discount_pct + b.fixture_discount_pct)

ModScale(m, k) ==
    Modifiers(m.sell_price_pct * k, m.sales_xp_pct * k, m.battle_xp_pct * k,
              m.fixture_discount_pct * k)

\* mods_per_rank of the nodes of the tree
ModsPerRank ==
    [s \in Skills |->
        CASE s = "sparring" -> Modifiers(0, 0, 50, 0)
          [] s = "tactics" -> Modifiers(0, 0, 50, 0)
          [] s = "champion" -> Modifiers(0, 0, 60, 0)
          [] s = "battle_grind" -> Modifiers(0, 0, 20, 0)
          [] s = "legend" -> Modifiers(0, 0, 20, 0)
          [] s = "haggle" -> Modifiers(10, 0, 0, 0)]

\* "prog.level < node.level_req" of can_rank_up
LevelNeverTooLow(lvl, level_req) == FALSE

LevelTooLow(lvl, level_req) == lvl < level_req

\* SkillTreeState.can_rank_up, its checks in program order
CanRankUp(rks, skill_id, points, lvl) ==
    LET node == SkillTree[skill_id]
    IN IF rks[skill_id] >= node.max_rank THEN FALSE
       ELSE IF points <= 0 THEN FALSE
       ELSE IF LevelTooLow(lvl, node.level_req) THEN FALSE
       ELSE IF \E i \in 1 .. Len(node.prereqs) :
                   rks[node.prereqs[i].skill_id] < node.prereqs[i].rank
       THEN FALSE
       ELSE TRUE

\* "self._dirty = True" of rank_up
DirtyKept(dirty) == dirty

DirtyAfterRankUp(dirty) == TRUE

\* SkillTreeState.rank_up
RankUp(skill_id) ==
    LET ok == CanRankUp(ranks, skill_id, skill_points, level)
    IN /\ ranks' = IF ok THEN [ranks EXCEPT ![skill_id] = @ + 1] ELSE ranks
       /\ skill_points' = IF ok THEN skill_points - 1 ELSE skill_points
       /\ mods_dirty' = IF ok THEN DirtyAfterRankUp(mods_dirty) ELSE mods_dirty
       /\ rank_call' = [skill |-> skill_id, ok |-> ok, parity |-> 1 - rank_call.parity]
       /\ UNCHANGED <<level, cached_mods, mods_out>>

\* the order in which modifiers() meets the skills of the ranks dict
SkillOrder == <<"haggle", "sparring", "tactics", "champion", "battle_grind", "legend">>

\* the for loop of modifiers() over the (skill, rank) items still to visit
RECURSIVE ModsLoop(_, _, _)
ModsLoop(rks, order, mods) ==
    IF order = <<>> THEN mods
    ELSE LET sid == Head(order)
             r == Min(rks[sid], SkillTree[sid].max_rank)
         IN IF rks[sid] <= 0 THEN ModsLoop(rks, Tail(order), mods)
            ELSE ModsLoop(rks, Tail(order), ModAdd(mods, ModScale(ModsPerRank[sid], r)))

\* SkillTreeState.modifiers(tree): the value returned and the cache it leaves
ModifiersCall(dirty, cached, rks) ==
    IF ~dirty THEN [value |-> cached, cached |-> cached, dirty |-> dirty]
    ELSE LET mods == ModsLoop(rks, SkillOrder, NoModifiers)
         IN [value |-> mods, cached |-> mods, dirty |-> FALSE]

NoModsCall == [value |-> NoModifiers, n |-> 0]

\* the action: modifiers(tree) is called
GetModifiers ==
    LET r == ModifiersCall(mods_dirty, cached_mods, ranks)
    IN /\ mods_dirty' = r.dirty
       /\ cached_mods' = r.cached
       /\ mods_out' = [value |-> r.value, n |-> 1 - mods_out.n]
       /\ UNCHANGED skillVars

NoRankCall == [skill |-> "none", ok |-> FALSE, parity |-> 0]

\* the ranks, levels and skill points the player starts from: each prerequisite
\* met or one rank short, each level requirement met or one level short
SkillRanks ==
    [sparring : {1, 2}, tactics : {0, 2, 3}, champion : {2, 3},
     battle_grind : {4, 5}, legend : {0, 10}, haggle : {0, 3}]
SkillLevels == {3, 4, 10, 11, 24, 25}
MaxSkillPoints == 2

\* C10: rank_up returns true if and only if the rank is below the node's
\* max_rank, skill_points >= 1, the level is at least the node's level_req and
\* every prerequisite skill is at or above its required rank; on success the
\* skill's rank rises by exactly 1 and skill_points falls by exactly 1; on
\* failure ranks and skill_points are unchanged.
RankUpIffAllowed ==
    [][LET s == rank_call'.skill
           node == SkillTree[s]
       IN /\ rank_call'.ok <=>
                (/\ ranks[s] < node.max_rank
                 /\ skill_points >= 1
                 /\ level >= node.level_req
                 /\ \A i \in 1 .. Len(node.prereqs) :
                       ranks[node.prereqs[i].skill_id] >= node.prereqs[i].rank)
          /\ rank_call'.ok =>
                (/\ ranks' = [ranks EXCEPT ![s] = ranks[s] + 1]
                 /\ skill_points' = skill_points - 1)
          /\ ~rank_call'.ok => UNCHANGED <<ranks, skill_points>>
      ]_skillVars

\* legend, the skill with two prerequisites, has been ranked up with the last
\* skill point
LegendRankedUp ==
    /\ rank_call.skill = "legend"
    /\ rank_call.ok
    /\ ranks["legend"] = 1
    /\ skill_points = 0

----------------------------------------------------------------------------
(* game/sim/progression.py: the xp curve and add_xp                        *)

\* xp_call is a history variable: the last add_xp call (its amount, the level
\* and xp it started from, what it reported and the number of calls, counted up to MaxXpCalls);
\* xp_query is the last xp_to_next call and its result
VARIABLES xp, xp_call, xp_query
progVars == <<xp, xp_call, xp_query>>

MAX_LEVEL == 2000

\* the curve of xp_to_next below the cap
XpCurveFalling(lvl) == 100 + 20 * lvl - (lvl * lvl) \div 10

XpCurve(lvl) == 100 + 20 * lvl + (lvl * lvl) \div 10

\* xp_to_next(level)
XpToNext(lvl) ==
    LET l == IF lvl < 1 THEN 1 ELSE lvl
    IN IF l >= MAX_LEVEL THEN 0 ELSE XpCurve(l)

\* skill_points_for_level(level)
SkillPointsNone(lvl) == 0

SkillPointsForLevel(lvl) == IF lvl <= 1 THEN 0 ELSE 1

\* "if need <= 0 or self.xp < need: break" of the loop of add_xp
LevelUpStopsAlways(need, have) == TRUE

LevelUpStops(need, have) == need <= 0 \/ have < need

\* the while loop of add_xp; p holds level, xp, skill_points and the result
\* fields gained_levels and gained_skill_points
RECURSIVE LevelUpLoop(_)
LevelUpLoop(p) ==
    IF ~(p.level < MAX_LEVEL) THEN p
    ELSE IF LevelUpStops(XpToNext(p.level), p.xp) THEN p
    ELSE LET sp == SkillPointsForLevel(p.level + 1)
         IN LevelUpLoop([level |-> p.level + 1,
                         xp |-> p.xp - XpToNext(p.level),
                         skill_points |-> p.skill_points + sp,
                         gained_levels |-> p.gained_levels + 1,
                         gained_skill_points |-> p.gained_skill_points + sp])

\* "if self.level >= MAX_LEVEL: self.level = MAX_LEVEL; self.xp = 0"
ClampAtCap(p) ==
    IF p.level >= MAX_LEVEL THEN [p EXCEPT !.level = MAX_LEVEL, !.xp = 0] ELSE p

\* "if self.level >= MAX_LEVEL: return LevelUpResult()" of add_xp
AtCapNever(lvl) == FALSE

AtCap(lvl) == lvl >= MAX_LEVEL

\* PlayerProgression.add_xp(amount) on a progression (lvl, x, points)
AddXpResult(lvl, x, points, amount) ==
    LET same == [level |-> lvl, xp |-> x, skill_points |-> points,
                 gained_levels |-> 0, gained_skill_points |-> 0]
    IN IF amount <= 0 THEN same
       ELSE IF AtCap(lvl) THEN same
       ELSE ClampAtCap(LevelUpLoop([same EXCEPT !.xp = x + amount]))

NoXpCall ==
    [amount |-> 0, level |-> 0, xp |-> 0, skill_points |-> 0, gained_levels |-> 0,
     gained_skill_points |-> 0, n |-> 0]

\* the add_xp calls that are counted
MaxXpCalls == 2

\* the action: add_xp(amount) is called on the player's progression
AddXp(amount) ==
    LET r == AddXpResult(level, xp, skill_points, amount)
    IN /\ level' = r.level
       /\ xp' = r.xp
       /\ skill_points' = r.skill_points
       /\ xp_call' = [amount |-> amount, level |-> level, xp |-> xp,
                      skill_points |-> skill_points, gained_levels |-> r.gained_levels,
                      gained_skill_points |-> r.gained_skill_points, n |-> Min(xp_call.n + 1, MaxXpCalls)]
       /\ UNCHANGED <<ranks, rank_call, xp_query>>

NoXpQuery == [level |-> 0, need |-> -1]

\* the action: xp_to_next(lvl) is called
QueryXpToNext(lvl) ==
    /\ xp_query' = [level |-> lvl, need |-> XpToNext(lvl)]
    /\ UNCHANGED <<skillVars, xp, xp_call>>

RECURSIVE SumOver(_, _)
SumOver(f, S) ==
    IF S = {} THEN 0
    ELSE LET x == CHOOSE x \in S : TRUE IN f[x] + SumOver(f, S \ {x})

\* the xp needed to pass the levels from, from + 1, ..., to - 1
RECURSIVE XpBetween(_, _)
XpBetween(from, to) ==
    IF from >= to THEN 0 ELSE XpToNext(from) + XpBetween(from + 1, to)

\* the levels add_xp is called at: the first levels and the levels at the cap
XpLevels == {1, 2, 3, 37, MAX_LEVEL - 3, MAX_LEVEL - 2, MAX_LEVEL - 1, MAX_LEVEL}

\* PlayerProgression(level=MAX_LEVEL, xp=999999, skill_points=123) of the tests
BigXp == 999999
TestSkillPoints == 123

\* the xp a progression of the given level starts a call with
XpStarts(lvl) ==
    IF lvl >= MAX_LEVEL THEN {0, BigXp} ELSE {0, 1, XpToNext(lvl) - 1}

\* the amounts of a call: none, up to and past the next one, two and three
\* thresholds, and a large one near the cap
XpAmounts(lvl, x) ==
    LET need == XpToNext(lvl) - x
    IN {-5, 0, 1, need - 1, need, need + XpToNext(lvl + 1),
        need + XpToNext(lvl + 1) + XpToNext(lvl + 2) + 7}
       \cup (IF lvl >= MAX_LEVEL - 3 THEN {BigXp} ELSE {})

\* C12: for a progression below the cap with 0 <= xp < xp_to_next(level),
\* add_xp(amount > 0) performs every level-up whose threshold is crossed:
\* afterwards level = MAX_LEVEL or xp < xp_to_next(level); unless the cap was
\* reached the xp is conserved (old xp + amount = new xp + the xp_to_next of
\* the levels passed); and gained_skill_points = gained_levels = new level -
\* old level.
LevelUpsAllPerformed ==
    (/\ 1 <= xp_call.level /\ xp_call.level < MAX_LEVEL
     /\ 0 <= xp_call.xp /\ xp_call.xp < XpToNext(xp_call.level)
     /\ xp_call.amount > 0)
    => /\ level = MAX_LEVEL \/ xp < XpToNext(level)
       /\ level < MAX_LEVEL =>
             xp_call.xp + xp_call.amount = xp + XpBetween(xp_call.level, level)
       /\ xp_call.gained_skill_points = xp_call.gained_levels
       /\ xp_call.gained_levels = level - xp_call.level

\* one call passed three levels below the cap and kept the remainder
ThreeLevelsInOneCall ==
    /\ xp_call.level = 37
    /\ xp_call.gained_levels = 3
    /\ level = 40
    /\ xp = 7

\* C13: when level = MAX_LEVEL, add_xp with any amount leaves level, xp and
\* skill_points unchanged and reports 0 gained levels and 0 gained skill
\* points.
CapInert ==
    xp_call.level = MAX_LEVEL
    => /\ level = xp_call.level
       /\ xp = xp_call.xp
       /\ skill_points = xp_call.skill_points
       /\ xp_call.gained_levels = 0
       /\ xp_call.gained_skill_points = 0

\* add_xp(999999) was called at the cap on a progression holding xp 999999
BigXpAtCap ==
    /\ xp_call.level = MAX_LEVEL
    /\ xp_call.amount = BigXp
    /\ xp = BigXp
    /\ skill_points = TestSkillPoints

\* the levels xp_to_next is asked about: every level up to the cap and
\* XpLevelMargin levels around that range
XpLevelMargin == 2
QueryLevels == 0 .. MAX_LEVEL + XpLevelMargin

\* C14: for every level L with 1 <= L < MAX_LEVEL, xp_to_next(L) > 0 and
\* xp_to_next(L) <= xp_to_next(L + 1) whenever L + 1 < MAX_LEVEL; and
\* xp_to_next(L) = 0 for every L >= MAX_LEVEL.
XpCurveMonotone ==
    xp_query # NoXpQuery
    => /\ (1 <= xp_query.level /\ xp_query.level < MAX_LEVEL)
          => /\ xp_query.need > 0
             /\ xp_query.level + 1 < MAX_LEVEL
                   => xp_query.need <= XpToNext(xp_query.level + 1)
       /\ xp_query.level >= MAX_LEVEL => xp_query.need = 0

\* xp_to_next was asked about the last level that has a successor below the cap
XpQueriedBelowCap ==
    /\ xp_query.level = MAX_LEVEL - 2
    /\ xp_query.need = 439260

\* the levels of a progression that is followed from a fresh start, and the
\* ranks it may spend
MaxProgressLevel == 5
MaxSpent == 4
ProgressLevels == (1 .. MaxProgressLevel) \cup (MAX_LEVEL - 2 .. MAX_LEVEL)
\* the amounts of its calls: a part of a level (at the first levels), the rest
\* of the level, and two levels at once
ProgressXp(lvl, x) ==
    {XpToNext(lvl) - x, XpToNext(lvl) + XpToNext(lvl + 1)}
    \cup (IF lvl <= MaxProgressLevel THEN {60} ELSE {})

\* C11: starting from a fresh progression (level 1, xp 0, skill_points 0, no
\* ranks), after any sequence of add_xp and rank_up calls skill_points + the
\* sum of all skill ranks = level - 1, and skill_points >= 0.
SkillPointsAccount ==
    /\ skill_points + SumOver(ranks, Skills) = level - 1
    /\ skill_points >= 0

\* points earned over several calls, one of them passing two levels, were
\* spent on two skills and one is left
PointsEarnedAndSpent ==
    /\ xp_call.gained_levels = 2
    /\ ranks["sparring"] = 2
    /\ ranks["tactics"] = 1
    /\ skill_points = 1
    /\ level = 5

----------------------------------------------------------------------------
(* game/sim/skill_tree.py: the memoized modifiers                          *)

\* the sum, over every skill with rank > 0, of its mods_per_rank scaled by
\* min(rank, max_rank)
ExpectedMods(rks) ==
    LET k == [s \in Skills |-> IF rks[s] > 0 THEN Min(rks[s], SkillTree[s].max_rank) ELSE 0]
    IN Modifiers(SumOver([s \in Skills |-> ModsPerRank[s].sell_price_pct * k[s]], Skills),
                 SumOver([s \in Skills |-> ModsPerRank[s].sales_xp_pct * k[s]], Skills),
                 SumOver([s \in Skills |-> ModsPerRank[s].battle_xp_pct * k[s]], Skills),
                 SumOver([s \in Skills |-> ModsPerRank[s].fixture_discount_pct * k[s]],
                         Skills))

\* the ranks a SkillTreeState is created with, a rank above max_rank (which
\* from_dict accepts) among them
ModRanks ==
    [sparring : {0, 2}, tactics : {0, 3}, champion : {0}, battle_grind : {0},
     legend : {0, 12}, haggle : {0, 3, 10}]
ModLevel == 25

\* C15: after any sequence of rank_up and modifiers() calls, modifiers(tree)
\* returns exactly the sum, over every skill with rank > 0, of that skill's
\* mods_per_rank scaled by min(rank, max_rank) for the current ranks: the
\* memoized value is never stale.
ModifiersNeverStale ==
    [][mods_out'.n # mods_out.n => mods_out'.value = ExpectedMods(ranks')]_<<mods_out, ranks>>

\* modifiers() was called, haggle ranked up from 3 to 4, and a later call
\* returned and cached the new sum, a skill above its max_rank counted capped
RecomputedAfterRankUp ==
    /\ mods_out.n = 0
    /\ ~mods_dirty
    /\ ranks["haggle"] = 4
    /\ ranks["legend"] = 12
    /\ cached_mods = Modifiers(40, 0, 200, 0)
    /\ mods_out.value = cached_mods

----------------------------------------------------------------------------
(* game/sim/pricing.py, game/sim/economy_rules.py: retail and sale prices  *)

\* price_call is a history variable: the last effective_sale_price call, the
\* retail base price of its product and the price it returned
VARIABLE price_call

\* None, returned for a product without a price
NoPrice == -1

\* int(round(n / d)) for d > 0: Python rounds a half to the even neighbour
RoundHalfEven(n, d) ==
    LET q == n \div d
        r == n % d
    IN IF 2 * r < d THEN q
       ELSE IF 2 * r > d THEN q + 1
       ELSE IF q % 2 = 0 THEN q ELSE q + 1

\* Prices of config.py and WHOLESALE_UNIT_COSTS, by product key
ProductSet == Range(Products)

DefaultPrices ==
    [p \in ProductSet |->
        CASE p = "booster" -> 4
          [] p = "deck" -> 18
          [] p = "single_common" -> 1
          [] p = "single_uncommon" -> 2
          [] p = "single_rare" -> 6
          [] p = "single_epic" -> 12
          [] p = "single_legendary" -> 28]

WHOLESALE_UNIT_COSTS ==
    [p \in ProductSet |->
        CASE p = "booster" -> 2
          [] p = "deck" -> 11
          [] p = "single_common" -> 1
          [] p = "single_uncommon" -> 1
          [] p = "single_rare" -> 4
          [] p = "single_epic" -> 7
          [] p = "single_legendary" -> 17]

\* PricingSettings: the mode and the markup of every product, in thousandths
PricingSettings(mode, markup_pct) == [mode |-> mode, markup_pct |-> markup_pct]

\* clamp_markup_pct: 0% .. 200%
ClampMarkupPct(pct) == IF pct < 0 THEN 0 ELSE IF pct > 2000 THEN 2000 ELSE pct

\* product_key(product) is None for anything but booster, deck and single_*
HasProductKey(product) == product \in {"booster", "deck"} \/ IsSingle(product)

\* wholesale_unit_cost(product)
WholesaleUnitCost(product) ==
    IF ~HasProductKey(product) THEN NoPrice
    ELSE IF product \notin DOMAIN WHOLESALE_UNIT_COSTS THEN NoPrice
    ELSE Max(1, WHOLESALE_UNIT_COSTS[product])

\* compute_retail_price(wholesale_cost, markup_pct)
ComputeRetailPrice(wholesale_cost, markup_pct) ==
    Max(1, RoundHalfEven(Max(1, wholesale_cost) * (1000 + ClampMarkupPct(markup_pct)), 1000))

\* retail_base_price(prices, pricing, product)
RetailBasePrice(prices, pricing, product) ==
    IF ~HasProductKey(product) THEN NoPrice
    ELSE IF pricing.mode = "absolute" THEN prices[product]
    ELSE IF WholesaleUnitCost(product) = NoPrice THEN NoPrice
    ELSE ComputeRetailPrice(WholesaleUnitCost(product), pricing.markup_pct)

\* apply_sell_price_pct(base_price, sell_price_pct)
ApplySellPricePct(base_price, sell_price_pct) ==
    Max(1, RoundHalfEven(base_price * (1000 + sell_price_pct), 1000))

\* effective_sale_price(prices, product, mods, pricing)
EffectiveSalePrice(prices, product, mods, pricing) ==
    LET base == RetailBasePrice(prices, pricing, product)
    IN IF base = NoPrice THEN NoPrice ELSE ApplySellPricePct(base, mods.sell_price_pct)

NoPriceCall == [product |-> "none", mode |-> "none", base |-> 0, pct |-> 0, result |-> 0]

\* the action: effective_sale_price is called for a product whose stored
\* price is price, with the given pricing settings and sell_price_pct
PriceCall(product, price, pricing, pct) ==
    LET prices == [DefaultPrices EXCEPT ![product] = price]
    IN price_call' = [product |-> product, mode |-> pricing.mode,
                      base |-> RetailBasePrice(prices, pricing, product), pct |-> pct,
                      result |-> EffectiveSalePrice(prices, product,
                                                    Modifiers(pct, 0, 0, 0), pricing)]

\* the stored prices, markups and sell_price_pct values of the calls: 1% to
\* 10% are the ranks of haggle
PriceBases == {1, 4, 10}
MarkupPcts == {0, 500, 2500}
SellPcts == {0, 10, 50, 100, 125, 1000}

\* C16: for every product key, pricing mode and integer base retail price
\* >= 1, effective_sale_price with sell_price_pct = 0 equals the base retail
\* price of the mode, and with any sell_price_pct > 0 it is strictly greater
\* than that base price; the result is always an integer >= 1.
SalePriceAboveBase ==
    price_call # NoPriceCall
    => /\ price_call.pct = 0 => price_call.result = price_call.base
       /\ price_call.pct > 0 => price_call.result > price_call.base
       /\ price_call.result \in Nat /\ price_call.result >= 1

----------------------------------------------------------------------------
(* game/scenes/shop_scene.py: the sale a paying customer triggers          *)

\* sale is a history variable: the last _process_purchase call (the purchase,
\* the shelf's stock and the money before and after it, the price that
\* effective_sale_price gives for the ranks held at the call, and the parity
\* of the number of calls)
VARIABLES money, pricing, sale
saleVars == <<money, pricing, sale>>

START_MONEY == 1400

\* the prices of the shop: the defaults with "app.state.prices.booster = 10"
BoosterPrice == 10
SalePrices == [DefaultPrices EXCEPT !["booster"] = BoosterPrice]

\* xp_from_sale(revenue, mods)
XpFromSale(revenue, mods) ==
    Max(0, RoundHalfEven(Max(0, revenue) * 2 * (1000 + Max(0, mods.sales_xp_pct)), 1000))

\* "self.app.state.money += price"
MoneyAfterSale(m, price) == m + price

\* _process_purchase(purchase) with the modifiers that skills.modifiers(tree)
\* returned; paid tells whether the call got past its early returns, and
\* asked whether it called modifiers()
ProcessSale(purchase, stocks, st, pick, m, mods, prices, settings) ==
    LET key == purchase.shelf_key
        price == EffectiveSalePrice(prices, purchase.product, mods, settings)
        same == [shelf_stocks |-> stocks, staff |-> st, money |-> m, xp |-> 0,
                 paid |-> FALSE, asked |-> FALSE]
    IN IF key \notin DOMAIN stocks THEN same
       ELSE IF stocks[key].qty <= 0 THEN same
       ELSE IF price = NoPrice THEN [same EXCEPT !.asked = TRUE]
       ELSE LET r == ProcessPurchase(purchase, stocks, st, pick)
            IN [shelf_stocks |-> r.shelf_stocks, staff |-> r.staff,
                money |-> MoneyAfterSale(m, price), xp |-> XpFromSale(price, mods),
                paid |-> TRUE, asked |-> TRUE]

\* a _move_customer call that runs _process_purchase whatever the customer's state
PurchaseAlwaysDue(c) == TRUE

\* the _move_customer call on c reaches "self._process_purchase(customer.purchase)"
PurchaseDue(c) ==
    /\ c.wait_s <= 0
    /\ (c.target[1] - c.pos[1]) * (c.target[1] - c.pos[1])
         + (c.target[2] - c.pos[2]) * (c.target[2] - c.pos[2]) <= CustomerArriveDist2
    /\ c.state = "paying"
    /\ c.purchase # NoPurchase

NoStock == [product |-> "none", qty |-> -1, max_qty |-> 0, cards |-> <<>>]
StockAt(stocks, key) == IF key \in DOMAIN stocks THEN stocks[key] ELSE NoStock

NoSale ==
    [purchase |-> NoPurchase, before |-> NoStock, after |-> NoStock,
     money_before |-> 0, money_after |-> 0, price |-> NoPrice, parity |-> 0]

\* the sale record of a _process_purchase call that led from the unprimed to
\* the primed state
SaleRecorded(purchase) ==
    sale' = [purchase |-> purchase,
             before |-> StockAt(shelf_stocks, purchase.shelf_key),
             after |-> StockAt(shelf_stocks', purchase.shelf_key),
             money_before |-> money, money_after |-> money',
             price |-> EffectiveSalePrice(SalePrices, purchase.product,
                                          ModsLoop(ranks, SkillOrder, NoModifiers), pricing),
             parity |-> 1 - sale.parity]

\* the state a sale leaves: shelf, staff and money, the cache of modifiers()
\* when it was called, and the progression after add_xp(xp_from_sale(...))
SaleApplied(s, mods) ==
    /\ shelf_stocks' = s.shelf_stocks
    /\ staff' = s.staff
    /\ money' = s.money
    /\ mods_dirty' = IF s.asked THEN mods.dirty ELSE mods_dirty
    /\ cached_mods' = IF s.asked THEN mods.cached ELSE cached_mods
    /\ IF s.paid THEN AddXp(s.xp) ELSE UNCHANGED <<skillVars, xp, xp_call, xp_query>>

\* one _move_customer call on customer i where money is kept: the call of
\* _update_day, _process_purchase included
MoveCustomerSale(i, dt) ==
    /\ i \in 1 .. Len(customers)
    /\ ~customers[i].done
    /\ \E draw \in Draws(customers[i], shelf_stocks) :
          LET c == customers[i]
              r == MoveCustomer(c, dt, draw, shelf_stocks, staff)
              mods == ModifiersCall(mods_dirty, cached_mods, ranks)
          IN /\ customers' = [customers EXCEPT ![i] = r.c]
             /\ IF PurchaseDue(c)
                THEN /\ SaleApplied(ProcessSale(c.purchase, shelf_stocks, staff, draw.pick,
                                                money, mods.value, SalePrices, pricing), mods)
                     /\ SaleRecorded(c.purchase)
                ELSE UNCHANGED <<shelf_stocks, staff, money, mods_dirty, cached_mods,
                                 skillVars, xp, xp_call, xp_query, sale>>
    /\ UNCHANGED <<inventory, collection, deck, pricing, mods_out>>

MaxSaleCustomers == 3

\* C17: every executed customer purchase either changes nothing (the shelf is
\* missing or has qty 0) or removes exactly one unit from that shelf and
\* increases money by exactly effective_sale_price(prices, product, current
\* skill modifiers, pricing mode).
SaleTakesOneUnit ==
    sale # NoSale
    => IF sale.before = NoStock \/ sale.before.qty <= 0
       THEN sale.after = sale.before /\ sale.money_after = sale.money_before
       ELSE /\ sale.after.qty = sale.before.qty - 1
            /\ sale.money_after = sale.money_before + sale.price

----------------------------------------------------------------------------
(* game/sim/actors.py: a shelf notification and the tick that follows it   *)

\* notified is a history variable: log holds the notify_shelf_change calls
\* made since the last update_staff call, each with its shelf key and whether
\* the staff was idle and the shelf existed with qty < max_qty at the call;
\* seen is the log the last update_staff call found
VARIABLE notified

NoNotified == [log |-> << >>, seen |-> << >>]

MaxNotifies == 2

\* notify_shelf_change(staff, key)
Notify(key) ==
    /\ Len(notified.log) < MaxNotifies
    /\ staff' = NotifyShelfChange(staff, key)
    /\ notified' = [notified EXCEPT !.log =
                       Append(@, [key |-> key,
                                  due |-> /\ staff.state = "idle"
                                          /\ key \in DOMAIN shelf_stocks
                                          /\ shelf_stocks[key].qty < shelf_stocks[key].max_qty])]
    /\ UNCHANGED <<shelf_stocks, inventory, collection, deck, tick_parity>>

\* the update_staff call that follows the notifications
NotifiedTick(dt) ==
    /\ StaffTick(dt)
    /\ tick_parity' = 1 - tick_parity
    /\ notified' = [log |-> << >>, seen |-> notified.log]

\* the shelves, the warehouse and the scan cooldowns a notification meets:
\* shelf A, next to the counter, is an empty or a full booster shelf; shelf B
\* holds one deck or nothing
NotifyShelves ==
    {(ShelfA :> ShelfStock("booster", qa, ShelfMax, <<>>)) @@ (ShelfB :> sb) :
        qa \in {0, ShelfMax},
        sb \in {ShelfStock("deck", 1, ShelfMax, <<>>), ShelfStock("empty", 0, ShelfMax, <<>>)}}
NotifyInventories == {Inventory(b, d, EmptySingles) : b \in {0, 1}, d \in {0, 1}}
NotifyCooldowns == {0, InitScanCooldown, ScanCooldown}

\* C18 as stated: if the staff is idle when notify_shelf_change(k) is called
\* and shelf k exists with qty < max_qty, then the very next update_staff tick
\* adopts a plan whose shelf_key is k (target_shelf_key = k).
NotifiedShelfAdopted ==
    [][tick_parity' # tick_parity
       => \A i \in 1 .. Len(notified.log) :
              notified.log[i].due
              => /\ staff'.plan.shelf_key = notified.log[i].key
                 /\ staff'.target_shelf_key = notified.log[i].key
      ]_<<tick_parity, staff, notified>>

\* C18: if the staff is idle when notify_shelf_change(k) is called, shelf k
\* exists with qty < max_qty and no other notify_shelf_change call follows
\* before the next update_staff tick, then that tick adopts a plan whose
\* shelf_key is k (target_shelf_key = k), whatever scan cooldown remained
\* before the notification and whichever other shelves are eligible or nearer.
LastNotifiedShelfAdopted ==
    [][(/\ tick_parity' # tick_parity
        /\ notified.log # << >>
        /\ notified.log[Len(notified.log)].due)
       => /\ staff'.plan.shelf_key = notified.log[Len(notified.log)].key
          /\ staff'.target_shelf_key = notified.log[Len(notified.log)].key
      ]_<<tick_parity, staff, notified>>

\* the tick after a single notification of shelf B took up shelf B although
\* shelf A, nearer and first in the scan order, is empty with a booster in the
\* warehouse
FartherShelfAdopted ==
    /\ notified.seen = <<[key |-> ShelfB, due |-> TRUE]>>
    /\ notified.log = << >>
    /\ staff.plan.shelf_key = ShelfB
    /\ staff.target_shelf_key = ShelfB
    /\ staff.scan_cooldown = ScanCooldown
    /\ shelf_stocks[ShelfA].qty = 0
    /\ inventory.booster_packs = 1

----------------------------------------------------------------------------
(* game/sim/forecast.py, game/sim/analytics.py: restock suggestions         *)

\* adays is analytics.days reduced to units_sold: the days that have metrics
\* and the units sold per product on each; forecast is a history variable:
\* the last compute_restock_suggestions call and the list it returned, cleared
\* when the history changes
VARIABLES adays, forecast
forecastVars == <<adays, forecast>>

DAY_DURATION_SECONDS == 300
\* lead_time_seconds=30.0 of _update_forecast_cache
LeadTimeSeconds == 30

NoUnits == [p \in ProductSet |-> 0]

\* AnalyticsState._day(day): the day's metrics, created when missing
DayMetrics(days, on_day) ==
    LET d == Max(1, on_day)
    IN IF d \in DOMAIN days THEN days ELSE days @@ (d :> NoUnits)

\* the loop of sales_avg_daily_units over dd = d, d - 1, ..., stop + 1
RECURSIVE WindowLoop(_, _, _, _, _)
WindowLoop(days, dd, stop, product, acc) ==
    IF dd <= stop THEN acc
    ELSE IF dd \notin DOMAIN days THEN WindowLoop(days, dd - 1, stop, product, acc)
    ELSE WindowLoop(days, dd - 1, stop, product,
                    [total |-> acc.total + days[dd][product], days |-> acc.days + 1])

\* sales_avg_daily_units: the average as the fraction num / den
SalesAvgDailyUnits(days, on_day, product, window_days) ==
    LET d == Max(1, on_day)
        n == Max(1, window_days)
        r == WindowLoop(days, d, Max(0, d - n), product, [total |-> 0, days |-> 0])
    IN IF r.days <= 0 THEN [num |-> 0, den |-> 1] ELSE [num |-> r.total, den |-> r.days]

\* _current_stock_for_product: the shelves' part, in shelf order
RECURSIVE ShelfStockLoop(_, _, _)
ShelfStockLoop(product, shelves, keys) ==
    IF keys = << >> THEN 0
    ELSE LET stock == shelves[Head(keys)]
             rest == ShelfStockLoop(product, shelves, Tail(keys))
         IN IF stock.qty <= 0 THEN rest
            ELSE IF stock.cards # << >>
            THEN (IF IsSingle(product) /\ stock.product = product
                  THEN Len(stock.cards) ELSE 0) + rest
            ELSE IF stock.product = product THEN stock.qty + rest
            ELSE rest

\* _current_stock_for_product(product, inv, shelves)
CurrentStockForProduct(product, inv, shelves) ==
    InvAvailable(inv, product)
    + ShelfStockLoop(product, shelves, SelectSeq(AllShelfKeys, LAMBDA k : k \in DOMAIN shelves))

\* ceil(a / b) for b > 0
CeilDiv(a, b) == -((-a) \div b)

\* "if avg_daily <= 0.0: continue"
AvgNeverSkipped(avg) == FALSE

AvgNotPositive(avg) == avg.num <= 0

\* rec = int(max(0, ceil(demand + safety - current))) with
\* demand = avg / day_seconds * lead and safety = max(1, avg * 0.10), over the
\* common denominator den * day_seconds * 10
RecommendedQty(avg, current, lead_time_seconds) ==
    LET lead == Max(1, lead_time_seconds)
        day_seconds == Max(1, DAY_DURATION_SECONDS)
        d == avg.den * day_seconds * 10
        want == avg.num * lead * 10 + Max(d, avg.num * day_seconds)
    IN Max(0, CeilDiv(want - current * d, d))

RestockSuggestion(product, recommended_qty, avg, current) ==
    [product |-> product, recommended_qty |-> recommended_qty,
     avg_daily_units |-> avg, current_total_stock |-> current]

\* the for loop of compute_restock_suggestions over _product_keys()
RECURSIVE SuggestLoop(_, _, _, _, _, _, _)
SuggestLoop(keys, days, on_day, inv, shelves, window_days, sug) ==
    IF keys = << >> THEN sug
    ELSE LET product == Head(keys)
             avg == SalesAvgDailyUnits(days, on_day, product, window_days)
             current == CurrentStockForProduct(product, inv, shelves)
             rec == RecommendedQty(avg, current, LeadTimeSeconds)
         IN SuggestLoop(Tail(keys), days, on_day, inv, shelves, window_days,
                        IF AvgNotPositive(avg) THEN sug
                        ELSE IF rec <= 0 THEN sug
                        ELSE Append(sug, RestockSuggestion(product, rec, avg, current)))

\* the sort key (recommended_qty, avg_daily_units): a before b when greater
SuggestionBefore(a, b) ==
    \/ a.recommended_qty > b.recommended_qty
    \/ /\ a.recommended_qty = b.recommended_qty
       /\ a.avg_daily_units.num * b.avg_daily_units.den
            > b.avg_daily_units.num * a.avg_daily_units.den

\* sug.sort(key=..., reverse=True): descending, equal keys keep their order
RECURSIVE SortSuggestions(_)
SortSuggestions(sug) ==
    IF sug = << >> THEN sug
    ELSE LET i == CHOOSE i \in 1 .. Len(sug) :
                      /\ \A j \in 1 .. Len(sug) : ~SuggestionBefore(sug[j], sug[i])
                      /\ \A j \in 1 .. i - 1 : SuggestionBefore(sug[i], sug[j])
         IN <<sug[i]>> \o SortSuggestions(SubSeq(sug, 1, i - 1) \o SubSeq(sug, i + 1, Len(sug)))

\* compute_restock_suggestions
ComputeRestockSuggestions(days, on_day, inv, shelves, window_days, max_suggestions) ==
    LET sorted == SortSuggestions(SuggestLoop(Products, days, on_day, inv, shelves,
                                              window_days, << >>))
    IN SubSeq(sorted, 1, Min(Len(sorted), Max(1, max_suggestions)))

NoForecast == [day |-> 0, window_days |-> 0, max_suggestions |-> 0, result |-> << >>]

MaxUnits == 1
MaxForecastDay == 3

\* record_sale(day, product): one more unit sold on that day
RecordSale(on_day, product) ==
    /\ DayMetrics(adays, on_day)[Max(1, on_day)][product] < MaxUnits
    /\ adays' = [DayMetrics(adays, on_day) EXCEPT ![Max(1, on_day)][product] = @ + 1]
    /\ forecast' = NoForecast
    /\ UNCHANGED <<shelf_stocks, inventory>>

\* record_visitor(day): the day gets metrics, with nothing sold
RecordVisitor(on_day) ==
    /\ adays' = DayMetrics(adays, on_day)
    /\ forecast' = NoForecast
    /\ UNCHANGED <<shelf_stocks, inventory>>

\* the action: compute_restock_suggestions is called
Forecast(on_day, window_days, max_suggestions) ==
    /\ forecast' = [day |-> on_day, window_days |-> window_days,
                    max_suggestions |-> max_suggestions,
                    result |-> ComputeRestockSuggestions(adays, on_day, inventory, shelf_stocks,
                                                         window_days, max_suggestions)]
    /\ UNCHANGED <<adays, shelf_stocks, inventory>>

\* the units of a product sold on the days of the trailing window that have
\* metrics
RECURSIVE UnitsOn(_, _, _)
UnitsOn(days, S, product) ==
    IF S = {} THEN 0
    ELSE LET dd == CHOOSE dd \in S : TRUE
         IN days[dd][product] + UnitsOn(days, S \ {dd}, product)

WindowDays(days, on_day, window_days) ==
    {dd \in DOMAIN days : dd <= Max(1, on_day) /\ dd > Max(1, on_day) - Max(1, window_days)}

\* the inputs of the calls and the shops they look at
ForecastDays == 1 .. MaxForecastDay + 1
ForecastWindows == {1, 3}
ForecastMax == {0, 4}
ForecastProducts == {"booster", "deck"}
ForecastShelves ==
    {(ShelfA :> sa) @@ (ShelfB :> ShelfStock("deck", 0, ShelfMax, << >>)) :
        sa \in {ShelfStock("booster", 0, ShelfMax, << >>),
                ShelfStock("booster", 2, ShelfMax, << >>),
                ShelfStock("single_common", 1, ShelfMax, <<"c1">>)}}
ForecastInventories == {Inventory(b, 0, EmptySingles) : b \in {0, 1}}

\* C19: for every analytics history, inventory and shelf state,
\* compute_restock_suggestions returns no suggestion with recommended_qty <= 0
\* and no suggestion for a product whose trailing-window average daily units
\* sold is 0.
SuggestionsOnlyForSoldProducts ==
    \A i \in 1 .. Len(forecast.result) :
        /\ forecast.result[i].recommended_qty > 0
        /\ UnitsOn(adays, WindowDays(adays, forecast.day, forecast.window_days),
                   forecast.result[i].product) # 0

\* with boosters sold on two days and a deck on one day of the window, and a
\* day with visitors only, the call returned one suggestion per sold product,
\* boosters first
TwoSuggestionsReturned ==
    /\ forecast.max_suggestions = 4
    /\ forecast.window_days = 3
    /\ Len(forecast.result) = 2
    /\ forecast.result[1].product = "booster"
    /\ forecast.result[1].recommended_qty = 2
    /\ forecast.result[2].product = "deck"
    /\ DOMAIN adays = 1 .. MaxForecastDay
    /\ adays[MaxForecastDay] = NoUnits

----------------------------------------------------------------------------
(* game/sim/analytics.py: the capped event log                             *)

\* logged is a history variable: every entry ever passed to log, in call order
VARIABLES event_log, max_events, logged
logVars == <<event_log, max_events, logged>>

\* "max_events: int = 400"
DefaultMaxEvents == 400

EventLogEntry(kind, t) == [kind |-> kind, t |-> t]

\* the slice s[-m:] of a list
FirstEvents(s, m) == SubSeq(s, 1, Min(Len(s), m))

LastEvents(s, m) ==
    IF m > 0 THEN SubSeq(s, Max(0, Len(s) - m) + 1, Len(s))
    ELSE SubSeq(s, Min(-m, Len(s)) + 1, Len(s))

\* AnalyticsState.log(day, t, kind, message)
LogResult(log, cap, entry) ==
    LET appended == Append(log, entry)
    IN IF Len(appended) > cap THEN LastEvents(appended, cap) ELSE appended

MaxLogged == 5

\* the action: log is called; the entry carries its kind and, as its time,
\* the number of entries logged before it
Log(kind) ==
    /\ Len(logged) < MaxLogged
    /\ event_log' = LogResult(event_log, max_events, EventLogEntry(kind, Len(logged)))
    /\ logged' = Append(logged, EventLogEntry(kind, Len(logged)))
    /\ UNCHANGED max_events

EventKinds == {"sale", "order", "delivery"}
EventCaps == {1, 2, 3}

\* C20: after any sequence of log calls with max_events >= 1 the event log
\* holds at most max_events entries and equals, in append order, the most
\* recent min(n, max_events) of the n entries logged.
EventLogKeepsNewest ==
    max_events >= 1
    => /\ Len(event_log) <= max_events
       /\ Len(event_log) = Min(Len(logged), max_events)
       /\ \A i \in 1 .. Len(event_log) :
              event_log[i] = logged[Len(logged) - Len(event_log) + i]

\* five entries were logged into a log capped at two: the last two are kept
OldestEventsDropped ==
    /\ max_events = 2
    /\ Len(logged) = MaxLogged
    /\ Len(event_log) = 2
    /\ event_log[1].t = MaxLogged - 2
    /\ event_log[2].t = MaxLogged - 1

----------------------------------------------------------------------------
(* game/sim/shop.py, game/sim/fixtures.py, game/core/app.py: placing objects *)

\* objects is ShopLayout.objects and fixtures the FixtureInventory;
\* place_call and try_call are history variables: the last place and the last
\* try_place_object call, what it returned and the parity of the number of calls
VARIABLES objects, fixtures, place_call, try_call
layoutVars == <<objects, fixtures, place_call, try_call>>

ShopObject(kind, tile) == [kind |-> kind, tile |-> tile]

\* _place_default: a counter and a poster
DefaultObjects == <<ShopObject("counter", CounterTile), ShopObject("poster", <<2, 1>>)>>

\* ShopLayout._in_bounds
InBounds(tile, grid) ==
    0 <= tile[1] /\ tile[1] < grid[1] /\ 0 <= tile[2] /\ tile[2] < grid[2]

\* "self.object_at(tile) is not None"
TileNeverOccupied(objs, tile) == FALSE

TileOccupied(objs, tile) == \E i \in 1 .. Len(objs) : objs[i].tile = tile

\* shelf_stocks.setdefault(key, ShelfStock("empty", 0))
StocksSetDefault(stocks, key) ==
    IF key \in DOMAIN stocks THEN stocks
    ELSE stocks @@ (key :> ShelfStock("empty", 0, ShelfMax, << >>))

\* ShopLayout.place(kind, tile): the layout it leaves and the value it
\* returns, which is None on every path
PlaceResult(objs, stocks, kind, tile) ==
    LET same == [objects |-> objs, shelf_stocks |-> stocks, returned |-> "None"]
    IN IF ~InBounds(tile, SHOP_GRID) THEN same
       ELSE IF TileOccupied(objs, tile) THEN same
       ELSE [objects |-> Append(objs, ShopObject(kind, tile)),
             shelf_stocks |-> IF kind = "shelf" THEN StocksSetDefault(stocks, tile) ELSE stocks,
             returned |-> "None"]

NoPlaceCall == [kind |-> "none", tile |-> NoTile, returned |-> "None", parity |-> 0]

\* the action: layout.place(kind, tile)
Place(kind, tile) ==
    LET r == PlaceResult(objects, shelf_stocks, kind, tile)
    IN /\ objects' = r.objects
       /\ shelf_stocks' = r.shelf_stocks
       /\ place_call' = [kind |-> kind, tile |-> tile, returned |-> r.returned,
                         parity |-> 1 - place_call.parity]
       /\ UNCHANGED <<fixtures, try_call>>

\* the action: layout.remove_at(tile)
RemoveAt(tile) ==
    /\ objects' = SelectSeq(objects, LAMBDA o : o.tile # tile)
    /\ shelf_stocks' = [k \in DOMAIN shelf_stocks \ {tile} |-> shelf_stocks[k]]
    /\ UNCHANGED <<fixtures, place_call, try_call>>

FixtureKinds == {"shelf", "counter", "poster"}

FixtureInventory(shelves, counters, posters) ==
    [shelf |-> shelves, counter |-> counters, poster |-> posters]

\* FixtureInventory.consume_for_place(kind)
ConsumeForPlace(fx, kind) ==
    IF kind \notin FixtureKinds THEN [ok |-> TRUE, fixtures |-> fx]
    ELSE IF fx[kind] <= 0 THEN [ok |-> FALSE, fixtures |-> fx]
    ELSE [ok |-> TRUE, fixtures |-> [fx EXCEPT ![kind] = @ - 1]]

\* "Refund on failure": the fixture taken by consume_for_place is given back
RefundNothing(fx, kind) == fx

RefundFixture(fx, kind) ==
    IF kind \in FixtureKinds THEN [fx EXCEPT ![kind] = @ + 1] ELSE fx

\* GameApp.try_place_object(kind, tile)
TryPlaceResult(objs, stocks, fx, kind, tile) ==
    LET needs_fixture == kind \in FixtureKinds
        c == ConsumeForPlace(fx, kind)
        r == PlaceResult(objs, stocks, kind, tile)
        placed == Len(r.objects) > Len(objs)
    IN IF needs_fixture /\ ~c.ok
       THEN [objects |-> objs, shelf_stocks |-> stocks, fixtures |-> fx, returned |-> FALSE]
       ELSE [objects |-> r.objects, shelf_stocks |-> r.shelf_stocks,
             fixtures |-> IF ~placed /\ needs_fixture
                          THEN RefundFixture(c.fixtures, kind) ELSE c.fixtures,
             returned |-> placed]

NoTryCall == [kind |-> "none", tile |-> NoTile, returned |-> FALSE, parity |-> 0]

\* the action: app.try_place_object(kind, tile)
TryPlaceObject(kind, tile) ==
    LET r == TryPlaceResult(objects, shelf_stocks, fixtures, kind, tile)
    IN /\ objects' = r.objects
       /\ shelf_stocks' = r.shelf_stocks
       /\ fixtures' = r.fixtures
       /\ try_call' = [kind |-> kind, tile |-> tile, returned |-> r.returned,
                       parity |-> 1 - try_call.parity]
       /\ UNCHANGED place_call

\* the tiles of the place calls: in the grid and one step outside it
PlaceTiles == {<<1, 1>>, <<2, 1>>, CounterTile, <<-1, 0>>, <<GridW, 1>>, <<0, GridH>>}
MaxFixtures == 2

\* no two objects on one tile, every object in bounds, and every shelf with a
\* shelf_stocks entry under its tile's key
LayoutSound(objs, stocks) ==
    /\ \A i, j \in 1 .. Len(objs) : objs[i].tile = objs[j].tile => i = j
    /\ \A i \in 1 .. Len(objs) :
          /\ InBounds(objs[i].tile, SHOP_GRID)
          /\ objs[i].kind = "shelf" => objs[i].tile \in DOMAIN stocks

Rejected(objs, tile) == ~InBounds(tile, SHOP_GRID) \/ TileOccupied(objs, tile)

TryPlaceAllOrNothing ==
    [][try_call' # try_call
       => LET kind == try_call'.kind
              tile == try_call'.tile
          IN /\ try_call'.returned = (fixtures[kind] > 0 /\ ~Rejected(objects, tile))
             /\ ~try_call'.returned => UNCHANGED <<fixtures, objects, shelf_stocks>>
             /\ try_call'.returned
                   => /\ fixtures' = [fixtures EXCEPT ![kind] = @ - 1]
                      /\ objects' = Append(objects, ShopObject(kind, tile))
      ]_<<try_call, fixtures, objects, shelf_stocks>>

\* the last shelf owned was asked for on the counter's tile: refused and kept
ShelfRefunded ==
    /\ try_call.kind = "shelf"
    /\ try_call.tile = CounterTile
    /\ ~try_call.returned
    /\ fixtures["shelf"] = 1
    /\ Len(objects) = Len(DefaultObjects) + 1

----------------------------------------------------------------------------
(* game/sim/economy.py: the spawn interval over the days *)

\* history variable: the last two calls of customer_spawn_interval, each with
\* the day asked and the value returned
VARIABLE spawn_queries
spawnVars == <<spawn_queries>>

SpawnQuery(on_day) == [day |-> on_day, interval |-> CustomerSpawnInterval(on_day)]

\* the action: customer_spawn_interval(on_day); the call before stays recorded
QuerySpawnInterval(on_day) ==
    spawn_queries' = <<spawn_queries[2], SpawnQuery(on_day)>>

\* the days asked: from day 0 to one day past 1 + 2 * CUSTOMER_SPAWN_RAMP_DAYS
SpawnDays == 0 .. 2 + 2 * CUSTOMER_SPAWN_RAMP_DAYS
LastRampDay == 1 + 2 * CUSTOMER_SPAWN_RAMP_DAYS

\* C23: customer_spawn_interval(1) is CUSTOMER_SPAWN_INTERVAL_START,
\* customer_spawn_interval(1 + 2 * CUSTOMER_SPAWN_RAMP_DAYS) is
\* CUSTOMER_SPAWN_INTERVAL_MIN, and over the days 1 .. 1 + 2 * RAMP_DAYS the
\* value is non-increasing in the day and within [MIN, START].
SpawnIntervalRamps ==
    LET a == spawn_queries[1]
        b == spawn_queries[2]
    IN /\ b.day = 1 => b.interval = CUSTOMER_SPAWN_INTERVAL_START
       /\ b.day = LastRampDay => b.interval = CUSTOMER_SPAWN_INTERVAL_MIN
       /\ b.day \in 1 .. LastRampDay
             => /\ CUSTOMER_SPAWN_INTERVAL_MIN <= b.interval
                /\ b.interval <= CUSTOMER_SPAWN_INTERVAL_START
       /\ (a.day \in 1 .. LastRampDay /\ b.day \in 1 .. LastRampDay /\ a.day <= b.day)
             => b.interval <= a.interval

\* the interval asked in the middle of the ramp and then past its end: it
\* fell strictly, to the minimum
RampEndAfterMiddle ==
    /\ spawn_queries[1].day = 1 + CUSTOMER_SPAWN_RAMP_DAYS \div 2
    /\ spawn_queries[2].day = LastRampDay
    /\ spawn_queries[2].interval < spawn_queries[1].interval
    /\ spawn_queries[1].interval < CUSTOMER_SPAWN_INTERVAL_START

----------------------------------------------------------------------------
(* game/ui/tooltip_manager.py, game/ui/text_cache.py: the two LRU caches *)

\* tooltips is TooltipLRUCache._cache and tooltip_max its max_items; texts is
\* TextCache._cache, text_max its max_items and frame_hits, frame_misses its
\* counters. An OrderedDict is the sequence of its entries, oldest first.
\* tooltip_used and text_used are history variables: the keys ever used, the
\* least recently used first.
VARIABLES tooltips, tooltip_max, tooltip_used, texts, text_max, frame_hits, frame_misses, text_used
cacheVars == <<tooltips, tooltip_max, tooltip_used, texts, text_max, frame_hits, frame_misses, text_used>>

CacheKeys(cache) == {cache[i].key : i \in 1 .. Len(cache)}

\* OrderedDict.get
CacheGet(cache, key) ==
    IF key \in CacheKeys(cache)
    THEN (CHOOSE i \in 1 .. Len(cache) : cache[i].key = key)
    ELSE 0

\* OrderedDict.__setitem__: a new key goes last, a known key keeps its place
CacheStore(cache, key, value) ==
    IF key \in CacheKeys(cache)
    THEN [i \in 1 .. Len(cache) |->
             IF cache[i].key = key THEN [key |-> key, value |-> value] ELSE cache[i]]
    ELSE Append(cache, [key |-> key, value |-> value])

\* OrderedDict.move_to_end
MoveToEnd(cache, key) ==
    LET i == CacheGet(cache, key)
    IN SubSeq(cache, 1, i - 1) \o SubSeq(cache, i + 1, Len(cache)) \o <<cache[i]>>

\* OrderedDict.popitem(last=False)
PopItemLast(cache) == SubSeq(cache, 1, Len(cache) - 1)

PopItemFirst(cache) == Tail(cache)

\* "while len(self._cache) > self.max_items: self._cache.popitem(last=False)"
RECURSIVE EvictWhile(_, _)
EvictWhile(cache, max_items) ==
    IF Len(cache) > max_items THEN EvictWhile(PopItemFirst(cache), max_items) ELSE cache

\* TooltipLRUCache.get: the cache it leaves
TooltipGet(cache, key) ==
    IF CacheGet(cache, key) = 0 THEN cache ELSE MoveToEnd(cache, key)

\* TooltipLRUCache.set: the cache it leaves
TooltipSet(cache, key, value, max_items) ==
    EvictWhile(MoveToEnd(CacheStore(cache, key, value), key), max_items)

\* TextCache.render: the cache it leaves; the surface stored is the
\* rendering of the key
TextRender(cache, key, max_items) ==
    IF CacheGet(cache, key) # 0 THEN MoveToEnd(cache, key)
    ELSE LET stored == MoveToEnd(CacheStore(cache, key, key), key)
         IN IF Len(stored) > max_items THEN PopItemFirst(stored) ELSE stored

\* the key becomes the most recently used one
Used(used, key) == SelectSeq(used, LAMBDA k : k # key) \o <<key>>

MaxFrameRenders == 2
TooltipKeys == {"a", "b", "c"}
TooltipValues == {"dummy", "other"}
TextKeys == {"hello", "a", "b"}
CacheSizes == {0, 1, 2}

\* the action: cache.get(key)
Get(key) ==
    /\ tooltips' = TooltipGet(tooltips, key)
    /\ tooltip_used' = IF CacheGet(tooltips, key) # 0 THEN Used(tooltip_used, key)
                       ELSE tooltip_used
    /\ UNCHANGED <<tooltip_max, texts, text_max, frame_hits, frame_misses, text_used>>

\* the action: cache.set(key, value)
Set(key, value) ==
    /\ tooltips' = TooltipSet(tooltips, key, value, tooltip_max)
    /\ tooltip_used' = Used(tooltip_used, key)
    /\ UNCHANGED <<tooltip_max, texts, text_max, frame_hits, frame_misses, text_used>>

\* the action: text_cache.render(font, text, color)
Render(key) ==
    /\ frame_hits + frame_misses < MaxFrameRenders
    /\ texts' = TextRender(texts, key, text_max)
    /\ frame_hits' = IF CacheGet(texts, key) # 0 THEN frame_hits + 1 ELSE frame_hits
    /\ frame_misses' = IF CacheGet(texts, key) # 0 THEN frame_misses ELSE frame_misses + 1
    /\ text_used' = Used(text_used, key)
    /\ UNCHANGED <<tooltips, tooltip_max, tooltip_used, text_max>>

\* the action: text_cache.begin_frame()
BeginFrame ==
    /\ frame_hits' = 0
    /\ frame_misses' = 0
    /\ UNCHANGED <<tooltips, tooltip_max, tooltip_used, texts, text_max, text_used>>

\* position of a key in the order of use
UsedAt(used, key) == CHOOSE i \in 1 .. Len(used) : used[i] = key

\* in a step from before to after, with held the keys the cache had and
\* the key the step used, the entries are at most max_items, every key
\* that left the cache was used less recently than every key kept, and no
\* key left a cache that is not full
LruStep(before, after, used_before, used_after, max_items) ==
    LET held == CacheKeys(before) \cup
                (IF used_after # used_before THEN {used_after[Len(used_after)]} ELSE {})
    IN /\ Len(after) <= max_items
       /\ \A gone \in held \ CacheKeys(after) :
             \A kept \in CacheKeys(after) :
                 UsedAt(used_after, gone) < UsedAt(used_after, kept)
       /\ Len(after) < max_items => held \subseteq CacheKeys(after)

\* C24: after any sequence of get/set (TooltipLRUCache) or render (TextCache)
\* operations the cache holds at most max_items entries, and whenever an
\* insertion overflows it the entry evicted is the least recently used one,
\* a hit on get/render and a set both counting as a use.
CachesEvictLeastRecentlyUsed ==
    [][/\ LruStep(tooltips, tooltips', tooltip_used, tooltip_used', tooltip_max)
       /\ LruStep(texts, texts', text_used, text_used', text_max)
      ]_<<tooltips, tooltip_used, texts, text_used>>

\* set(a), set(b), get(a), set(c) with max_items 2: b was evicted, a kept;
\* and "hello" left the text cache of two entries after a and b were rendered
TouchedKeyKept ==
    /\ tooltip_max = 2
    /\ tooltip_used = <<"b", "a", "c">>
    /\ CacheKeys(tooltips) = {"a", "c"}
    /\ text_max = 2
    /\ text_used = <<"hello", "a", "b">>
    /\ CacheKeys(texts) = {"a", "b"}

----------------------------------------------------------------------------
(* The staff in a shop with a shelf it cannot reach                         *)

\* shelf A beside the counter, shelf C walled in by the counter and shelf D,
\* shelf D served from the corner tile; A and C hold boosters, full or sold
\* out, D is a sold-out deck shelf or lists one copy of card c1
WalledShelves ==
    {(ShelfA :> ShelfStock("booster", qa, ShelfMax, <<>>))
        @@ (ShelfC :> ShelfStock("booster", qc, ShelfMax, <<>>)) @@ (ShelfD :> sd) :
        qa \in {0, ShelfMax}, qc \in {0, ShelfMax},
        sd \in {ShelfStock("deck", 0, ShelfMax, <<>>),
                ShelfStock("single_common", 1, ShelfMax, <<"c1">>)}}

\* the warehouse: boosters none or more than a full carry, decks none, one
\* or more than a full carry, a common single or none
WalledInventories ==
    {Inventory(b, d, [EmptySingles EXCEPT !["common"] = c]) :
        b \in {0, MAX_CARRY_BOOSTERS + 1}, d \in {0, 1, MAX_CARRY_DECKS + 1}, c \in {0, 1}}

\* copies of c1 owned and copies of it in the deck
WalledCollections == {[NoCards EXCEPT !["c1"] = n] : n \in {1, 2}}
WalledDecks == {[NoCards EXCEPT !["c1"] = n] : n \in {0, 1}}

\* the update_staff call of _update_day, counted
WalledTick(dt) == StaffTick(dt) /\ TickCounted

\* the staff stands where the next tile to reach is the target tile itself
AtFinalWaypoint(st) ==
    /\ st.state = "moving"
    /\ st.target_tile # NoTile
    /\ LET next_tile == IF st.path # <<>> THEN st.path[1] ELSE st.target_tile
           t == TileCenter(next_tile)
           dx == t[1] - st.pos[1]
           dy == t[2] - st.pos[2]
       IN /\ dx * dx + dy * dy < ArriveDist2
          /\ Len(st.path) <= 1
          /\ next_tile = st.target_tile

StateEdges ==
    {<<"idle", "moving">>, <<"moving", "stocking">>, <<"stocking", "idle">>, <<"moving", "idle">>}

\* the tick took from the warehouse what _pickup_at_counter takes
PickupPerformed ==
    LET preferred == IF staff.plan # NoPlan /\ IsSingle(staff.plan.product)
                     THEN RarityOf(staff.plan.product) ELSE "none"
        p == PickupAtCounter(staff, inventory, preferred)
    IN /\ inventory' = p.inv
       /\ staff'.carry_boosters = p.st.carry_boosters
       /\ staff'.carry_decks = p.st.carry_decks
       /\ staff'.carry_singles = p.st.carry_singles

\* the state changes along the four edges only, and stocking is entered only
\* on reaching the final waypoint with task deliver
StateEdgesKept ==
    /\ staff'.state # staff.state => <<staff.state, staff'.state>> \in StateEdges
    /\ (staff'.state = "stocking" /\ staff.state # "stocking")
          => AtFinalWaypoint(staff) /\ staff.task = "deliver"

\* C25 as stated: the staff state changes only along idle -> moving,
\* moving -> stocking, stocking -> idle and moving -> idle; stocking is
\* entered only on reaching the final waypoint with task deliver; reaching
\* the final waypoint with task pickup performs the counter pickup and
\* switches task to deliver while the state stays moving.
PickupAlwaysContinues ==
    [][/\ StateEdgesKept
       /\ (AtFinalWaypoint(staff) /\ staff.task = "pickup")
             => /\ PickupPerformed
                /\ staff'.task = "deliver"
                /\ staff'.state = "moving"
      ]_<<staff, inventory>>

\* C25: the staff state changes only along idle -> moving, moving ->
\* stocking, stocking -> idle and moving -> idle; stocking is entered only on
\* reaching the final waypoint with task deliver; reaching the final waypoint
\* with task pickup performs the counter pickup and, when the planned shelf
\* has a walkable adjacent tile, switches task to deliver while the state
\* stays moving; when it has none the plan is dropped and the staff goes idle
\* with task none, keeping what it picked up.
PickupContinuesOrAbandons ==
    [][/\ StateEdgesKept
       /\ (AtFinalWaypoint(staff) /\ staff.task = "pickup")
             => /\ PickupPerformed
                /\ IF AdjacentWalkTiles(staff.plan.shelf_key, SHOP_GRID, BlockedTiles) # <<>>
                   THEN staff'.task = "deliver" /\ staff'.state = "moving"
                   ELSE /\ staff'.task = "none"
                        /\ staff'.state = "idle"
                        /\ staff'.plan = NoPlan
      ]_<<staff, inventory>>

\* the staff stands idle beside the counter, its plan gone, holding the
\* boosters it picked up for the walled-in shelf
PickupThenAbandoned ==
    /\ staff.state = "idle"
    /\ staff.task = "none"
    /\ staff.plan = NoPlan
    /\ staff.carry_boosters > 0
    /\ TileOf(staff.pos) = <<2, 2>>
    /\ shelf_stocks[ShelfC].qty = 0

\* a unit of the product in the warehouse; for an empty shelf, a unit of
\* any product
SourceInWarehouse(product) ==
    IF product = "booster" THEN inventory.booster_packs > 0
    ELSE IF product = "deck" THEN inventory.decks > 0
    ELSE IF product = "empty"
    THEN \/ inventory.booster_packs > 0
         \/ inventory.decks > 0
         \/ \E r \in RaritySet : inventory.singles[r] > 0
    ELSE \E r \in RaritySet : product = SingleProduct(r) /\ inventory.singles[r] > 0

\* shelf k may be restocked: capacity, stock below it (the threshold at
\* ratio 0.999 is max_qty - 1), and the source at hand
RestockEligible(k) ==
    LET stock == shelf_stocks[k]
    IN /\ stock.max_qty > 0
       /\ stock.qty <= stock.max_qty - 1
       /\ IF stock.cards # <<>>
          THEN collection[stock.cards[1]] > deck[stock.cards[1]]
          ELSE SourceInWarehouse(stock.product)

\* C28: choose_restock_plan returns None if and only if no shelf is
\* eligible; otherwise the plan targets a shelf of minimum Manhattan
\* distance from the staff tile among the eligible shelves, and among equally
\* distant ones the earliest in shelf_stocks insertion order.
PlanTargetsNearestEligible ==
    LET staff_tile == TileOf(staff.pos)
        plan == ChooseRestockPlan(staff_tile, ShelfKeys, shelf_stocks, inventory,
                                  collection, deck)
        eligible == {i \in 1 .. Len(ShelfKeys) : RestockEligible(ShelfKeys[i])}
    IN /\ plan = NoPlan <=> eligible = {}
       /\ eligible # {}
             => \E i \in eligible :
                   /\ plan.shelf_key = ShelfKeys[i]
                   /\ \A j \in eligible :
                         \/ Manhattan(staff_tile, ShelfKeys[i]) < Manhattan(staff_tile, ShelfKeys[j])
                         \/ /\ Manhattan(staff_tile, ShelfKeys[i]) = Manhattan(staff_tile, ShelfKeys[j])
                            /\ i <= j

\* the staff, still on the counter tile, has planned shelf A while shelf C,
\* as near and as eligible, comes later in shelf_stocks
EarlierOfTwoNearest ==
    /\ TileOf(staff.pos) = CounterTile
    /\ staff.state = "moving"
    /\ staff.plan.shelf_key = ShelfA
    /\ RestockEligible(ShelfC)
    /\ Manhattan(CounterTile, ShelfA) = Manhattan(CounterTile, ShelfC)

\* shelf k is eligible, a unit of its product is in the warehouse, and a
\* walkable tile beside it and one beside the counter can be reached
ServiceableShelf(k) ==
    /\ k \in DOMAIN shelf_stocks
    /\ RestockEligible(k)
    /\ shelf_stocks[k].cards = <<>>
    /\ HasSource(shelf_stocks[k].product, inventory)
    /\ StaffCanReachBeside(CounterTile)
    /\ StaffCanReachBeside(k)

\* shelf k is eligible and nearer to the staff than shelf other, and has no
\* walkable adjacent tile
NearerUnserviceable(k, other) ==
    /\ k \in DOMAIN shelf_stocks
    /\ RestockEligible(k)
    /\ AdjacentWalkTiles(k, SHOP_GRID, BlockedTiles) = <<>>
    /\ Manhattan(TileOf(staff.pos), k) < Manhattan(TileOf(staff.pos), other)

\* C30: a restock-eligible shelf with stock in the inventory and a
\* reachable walkable adjacent tile is eventually restocked by repeated
\* update_staff ticks even when another eligible shelf nearer to the staff
\* cannot be served; an unserviceable shelf never starves the others.
UnserviceableShelfNeverStarves ==
    \A q \in 0 .. ShelfMax :
        (/\ ServiceableShelf(ShelfD)
         /\ NearerUnserviceable(ShelfC, ShelfD)
         /\ shelf_stocks[ShelfD].qty = q)
            ~> shelf_stocks[ShelfD].qty > q

----------------------------------------------------------------------------
(* The staff restocking after sales: what a tick moves                      *)

\* the notify_shelf_change call that ends _process_purchase
ShelfChanged(key) ==
    /\ staff' = NotifyShelfChange(staff, key)
    /\ UNCHANGED <<shelf_stocks, inventory, collection, deck, tick_parity>>

\* units of bulk product p in the warehouse, in the staff's hands and on the
\* bulk shelves holding p
BulkUnits(p, inv, st, stocks) ==
    (IF p = "booster" THEN inv.booster_packs + st.carry_boosters
     ELSE IF p = "deck" THEN inv.decks + st.carry_decks
     ELSE inv.singles[RarityOf(p)] + st.carry_singles[RarityOf(p)])
    + SumSeq([i \in 1 .. Len(ShelfKeys) |->
                 IF stocks[ShelfKeys[i]].product = p /\ stocks[ShelfKeys[i]].cards = <<>>
                 THEN stocks[ShelfKeys[i]].qty ELSE 0])

\* copies of card c in the collection and listed on the shelves
CardCopies(c, coll, stocks) ==
    coll[c]
    + SumSeq([i \in 1 .. Len(ShelfKeys) |->
                 Len(SelectSeq(stocks[ShelfKeys[i]].cards, LAMBDA x : x = c))])

\* C26: every update_staff tick conserves stock: for each bulk product the
\* total of warehouse inventory, staff carry and shelf qty of that product is
\* unchanged by the tick, and for listed cards the total of collection copies
\* and copies listed on shelves is unchanged.
StaffTickConservesStock ==
    [][tick_parity' # tick_parity
       => /\ \A p \in ProductSet :
                BulkUnits(p, inventory', staff', shelf_stocks')
                    = BulkUnits(p, inventory, staff, shelf_stocks)
          /\ \A c \in CardIds :
                CardCopies(c, collection', shelf_stocks') = CardCopies(c, collection, shelf_stocks)
      ]_<<tick_parity, inventory, staff, shelf_stocks, collection>>

\* C29: whenever a staff stocking step adds stock to a shelf that holds
\* listed cards, it moves exactly one copy of a card from the collection onto
\* that shelf, only when the owned count strictly exceeds the copies
\* committed to the deck, and the cards already listed stay listed, whether
\* the plan came from the shelf scan or from a priority notification.
ListedShelfGetsOwnedCopy ==
    [][\A k \in DOMAIN shelf_stocks :
          (/\ tick_parity' # tick_parity
           /\ shelf_stocks[k].cards # <<>>
           /\ shelf_stocks'[k].qty > shelf_stocks[k].qty)
             => \E c \in CardIds :
                   /\ collection[c] > deck[c]
                   /\ collection' = [collection EXCEPT ![c] = @ - 1]
                   /\ shelf_stocks'[k].cards = Append(shelf_stocks[k].cards, c)
                   /\ shelf_stocks'[k].qty = shelf_stocks[k].qty + 1
      ]_<<tick_parity, shelf_stocks, collection>>

----------------------------------------------------------------------------
(* game/scenes/shop_scene.py: the product a sale is charged for             *)

\* C27: the product charged and recorded for a sale is always the product
\* the shelf holds at the moment the sale is executed, even when the shelf's
\* contents were changed between the customer choosing the purchase and
\* paying at the counter.
SaleChargesShelfProduct ==
    (sale # NoSale /\ sale.after # sale.before)
        => sale.purchase.product = sale.before.product

----------------------------------------------------------------------------
(* Staff progress: a trip always ends                                      *)

\* C31: from every state where the staff is moving or stocking, repeated
\* update_staff ticks with dt > 0 and no other change reach state == idle
\* after finitely many ticks.
StaffAlwaysReturnsToIdle ==
    (staff.state \in {"moving", "stocking"}) ~> (staff.state = "idle")

\* C31 case: the staff left the counter, walked, stocked and is idle again
\* beside a shelf it delivered to
StaffIdleAfterTrip ==
    /\ staff.state = "idle"
    /\ staff.plan = NoPlan
    /\ staff.pos # StaffStart
    /\ staff.stock_timer = 0
    /\ \E k \in DOMAIN shelf_stocks : shelf_stocks[k].qty = 1

----------------------------------------------------------------------------
(* Customers: the order of their states                                    *)

\* how far a customer has come: its state, and done once it has left
CustomerStage(c) ==
    IF c.done THEN 5
    ELSE CASE c.state = "to_shelf" -> 1
           [] c.state = "to_counter" -> 2
           [] c.state = "paying" -> 3
           [] c.state = "exit" -> 4
           [] OTHER -> 0

\* C32: each customer's state only advances in the order to_shelf ->
\* to_counter -> paying -> exit -> done, one state at a time and never back;
\* a purchase intent is only chosen on the to_shelf -> to_counter step, and
\* _process_purchase only runs on a paying -> exit step of a customer that
\* holds an intent, so at most once per customer.
CustomersAdvanceInOrder ==
    [][/\ \A i \in 1 .. Len(customers) :
            i <= Len(customers')
            => /\ CustomerStage(customers[i]) # 0
               /\ CustomerStage(customers'[i]) - CustomerStage(customers[i]) \in {0, 1}
               /\ customers'[i].purchase # customers[i].purchase
                    => customers[i].state = "to_shelf" /\ customers'[i].state = "to_counter"
       /\ sale' # sale
            => \E i \in 1 .. Len(customers) :
                  /\ customers[i].state = "paying" /\ customers'[i].state = "exit"
                  /\ customers[i].purchase # NoPurchase
                  /\ sale'.purchase = customers[i].purchase
                  /\ \A j \in 1 .. Len(customers) : j # i => customers'[j] = customers[j]
      ]_<<customers, sale>>

\* C32 case: one customer that bought has left, another that found nothing
\* to buy has left without a transaction
CustomersLeftWithAndWithoutPurchase ==
    \E i, j \in 1 .. Len(customers) :
        /\ customers[i].done /\ customers[i].purchase # NoPurchase
        /\ customers[j].done /\ customers[j].purchase = NoPurchase
        /\ sale # NoSale

----------------------------------------------------------------------------
(* game/scenes/shop_scene.py: the spawn pacing of a day phase              *)

\* blocked_at is a history variable: the phase time of the last spawn
\* attempt that was pushed back since the last customer came in, -1 when
\* there was none
VARIABLE blocked_at
pacingVars == <<blocked_at>>

MAX_CUSTOMER_SPAWNS_PER_FRAME == 1

\* the day of the pacing model is 60 s long (300 s in config.py): from day
\* 15 on its schedule holds MAX_CUSTOMERS_SPAWNED_PER_DAY offsets
PacingDayDuration == 1200
PacingDays == {1, 15}
\* the player places the first shelf in the first 6 s of the day at the latest
MaxPlaceTime == 120
\* the customers that leave the shop before the day is over
MaxLeaving == 4

\* the schedule loop of _begin_day_phase for a day of the given length
RECURSIVE ScheduleWithin(_, _, _, _)
ScheduleWithin(t, effective, sched, duration) ==
    IF t < duration /\ Len(sched) < MAX_CUSTOMERS_SPAWNED_PER_DAY
    THEN ScheduleWithin(t + effective, effective, Append(sched, t), duration)
    ELSE sched

\* _begin_day_phase: the customer_schedule of day d
DaySchedule(d, duration) ==
    LET effective == Max(CustomerSpawnInterval(d),
                         duration \div (MAX_CUSTOMERS_SPAWNED_PER_DAY + 1))
    IN ScheduleWithin(effective, effective, <<>>, duration)

\* ShopLayout.shelf_tiles()
ShelfTiles(objs) ==
    LET shelves == SelectSeq(objs, LAMBDA o : o.kind = "shelf")
    IN [i \in 1 .. Len(shelves) |-> shelves[i].tile]

\* "active" of _update_day: the customers that are not done
ActiveCustomers(cs) == Cardinality({i \in 1 .. Len(cs) : ~cs[i].done})

\* the customer loop of _update_day as the pacing sees it: n more customers
\* end the call with done = True. The pacing reads only the number of
\* customers that are not done, so they leave in the order they came.
CustomersFinish(cs, n) ==
    LET gone == Len(cs) - ActiveCustomers(cs)
    IN [i \in 1 .. Len(cs) |->
           IF i > gone /\ i <= gone + n
           THEN [cs[i] EXCEPT !.done = TRUE, !.state = "exit",
                              !.pos = ExitPos, !.target = ExitPos]
           ELSE cs[i]]

\* "if active >= int(MAX_CUSTOMERS_ACTIVE)"
ShopNeverFull(active) == FALSE

ShopFull(active) == active >= MAX_CUSTOMERS_ACTIVE

\* "float(self.phase_timer + float(CUSTOMER_SPAWN_RETRY_DELAY))"
RetryNow(t) == t

RetryAt(t) == t + SpawnRetryDelay

\* the while loop of _update_day over the pacing state p (customers,
\* spawned, customer_schedule, phase_timer, and blocked: whether an attempt
\* was pushed back); shelves is shelf_tiles() and shelf the tile rng.choice draws
RECURSIVE SpawnLoop(_, _, _, _, _)
SpawnLoop(p, active, spawns, shelves, shelf) ==
    IF /\ spawns < MAX_CUSTOMER_SPAWNS_PER_FRAME
       /\ p.spawned < Len(p.customer_schedule)
       /\ p.phase_timer >= p.customer_schedule[p.spawned + 1]
    THEN IF ShopFull(active) \/ shelves = <<>>
         THEN [p EXCEPT !.customer_schedule[p.spawned + 1] = RetryAt(p.phase_timer),
                        !.blocked = TRUE]
         ELSE SpawnLoop([p EXCEPT !.customers = Append(@, Customer(EntrancePos, TileCenter(shelf))),
                                  !.spawned = @ + 1],
                        active + 1, spawns + 1, shelves, shelf)
    ELSE p

\* the action: _update_cycle(dt) in a day phase, as far as the pacing goes:
\* the timer, the customer loop and the spawn loop of _update_day, and
\* _begin_night_phase when the day is over (update_staff, which _update_day
\* calls last, reads and writes none of these variables)
PacingTick(dt) ==
    /\ cycle_active /\ ~cycle_paused /\ cycle_phase = "day"
    /\ \E n \in 0 .. Min(ActiveCustomers(customers),
                        MaxLeaving - (Len(customers) - ActiveCustomers(customers))) :
       \E shelf \in (IF ShelfTiles(objects) = <<>> THEN {NoTile} ELSE Range(ShelfTiles(objects))) :
          LET t == phase_timer + dt
              cs == CustomersFinish(customers, n)
              p == SpawnLoop([customers |-> cs, spawned |-> spawned,
                              customer_schedule |-> customer_schedule,
                              phase_timer |-> t, blocked |-> FALSE],
                             ActiveCustomers(cs), 0, ShelfTiles(objects), shelf)
              night == t >= PacingDayDuration
          IN /\ phase_timer' = IF night THEN 0 ELSE t
             /\ cycle_phase' = IF night THEN "night" ELSE "day"
             /\ customers' = IF night THEN <<>> ELSE p.customers
             /\ spawned' = IF night THEN 0 ELSE p.spawned
             /\ customer_schedule' = IF night THEN <<>> ELSE p.customer_schedule
             /\ blocked_at' = IF night THEN -1
                              ELSE IF p.blocked THEN t
                              ELSE IF p.spawned > spawned THEN -1
                              ELSE blocked_at
    /\ UNCHANGED <<cycle_active, cycle_paused, day, tick_log>>

\* the action: the player places the shop's first shelf during the day
PlaceFirstShelf ==
    /\ cycle_phase = "day"
    /\ phase_timer <= MaxPlaceTime
    /\ ShelfTiles(objects) = <<>>
    /\ Place("shelf", ShelfA)

\* C33: in every state of a day phase at most MAX_CUSTOMERS_ACTIVE customers
\* are not done and at most MAX_CUSTOMERS_SPAWNED_PER_DAY were spawned in
\* the phase, and a single tick spawns at most MAX_CUSTOMER_SPAWNS_PER_FRAME
\* customers, however many schedule offsets have elapsed.
SpawnCapsHold ==
    /\ [](cycle_phase = "day"
          => /\ ActiveCustomers(customers) <= MAX_CUSTOMERS_ACTIVE
             /\ spawned <= MAX_CUSTOMERS_SPAWNED_PER_DAY
             /\ Len(customers) = spawned)
    /\ [][cycle_phase' = "day"
          => /\ spawned' - spawned <= MAX_CUSTOMER_SPAWNS_PER_FRAME
             /\ Len(customers') - Len(customers) <= MAX_CUSTOMER_SPAWNS_PER_FRAME
      ]_<<cycle_phase, spawned, customers>>

\* C33 case: the shop is at its cap of active customers while two more
\* schedule offsets have already elapsed
ShopFullWithBacklog ==
    /\ cycle_phase = "day"
    /\ ActiveCustomers(customers) = MAX_CUSTOMERS_ACTIVE
    /\ spawned + 2 <= Len(customer_schedule)
    /\ phase_timer >= customer_schedule[spawned + 2]

\* C34: when a scheduled spawn is blocked at phase time t (the shop is at
\* the cap of active customers, or no shelf is placed), no customer is
\* spawned before phase time t + CUSTOMER_SPAWN_RETRY_DELAY, even when the
\* blockage clears earlier.
BlockedSpawnWaitsRetryDelay ==
    [][(cycle_phase' = "day" /\ spawned' > spawned /\ blocked_at >= 0)
       => phase_timer' >= blocked_at + SpawnRetryDelay
      ]_<<cycle_phase, spawned, phase_timer, blocked_at>>

\* C34 case: a day began without a shelf and an attempt was pushed back; the
\* shelf has been placed since, the blockage is gone, the schedule offset
\* lies in the past, and the retry time has not come yet
BlockageClearedBeforeRetry ==
    /\ cycle_phase = "day"
    /\ blocked_at >= 0
    /\ spawned = 0
    /\ ShelfTiles(objects) # <<>>
    /\ ~ShopFull(ActiveCustomers(customers))
    /\ phase_timer > blocked_at
    /\ phase_timer < blocked_at + SpawnRetryDelay

----------------------------------------------------------------------------
(* Staff without a path: "_bfs_path(...) or []"                            *)

\* the staff was sent to a tile that _bfs_path finds no path to: it is
\* moving with an empty path towards a tile other than the one it stands on
SentWithoutPath(st) ==
    /\ st.state = "moving"
    /\ st.path = <<>>
    /\ st.target_tile # NoTile
    /\ TileOf(st.pos) # st.target_tile
    /\ ~BfsPath(TileOf(st.pos), st.target_tile, SHOP_GRID, BlockedTiles).found

\* the divided shop: the counter and the shelves A and B wall off the middle
\* column, shelf D stands in the left column; D sells out of a bulk product
\* the warehouse holds
DividedShelves ==
    {(ShelfA :> ShelfStock("booster", ShelfMax, ShelfMax, <<>>))
       @@ (ShelfB :> ShelfStock("deck", qb, ShelfMax, <<>>))
       @@ (ShelfD :> ShelfStock(pd, 0, ShelfMax, <<>>)) :
        qb \in {0, ShelfMax}, pd \in {"booster", "deck"}}

DividedInventories ==
    {Inventory(b, d, EmptySingles) : b \in {1, MAX_CARRY_BOOSTERS + 1}, d \in {1, MAX_CARRY_DECKS + 1}}

\* the staff starts on the counter tile or in the right column
DividedStarts == {StaffStart, TileCenter(<<2, 0>>)}

\* C35: when BFS finds no path to the chosen destination tile the staff gets
\* an empty path, and the next update_staff tick treats it as being at the
\* destination already: it performs the pickup or enters stocking on that
\* tick instead of travelling.
NoPathMeansAlreadyThere ==
    [][SentWithoutPath(staff)
       => \/ staff'.state = "stocking"
          \/ staff.task = "pickup" /\ staff'.task = "deliver"
      ]_<<staff, tick_parity>>

\* C35 case: the staff, sent without a path, is travelling in a straight
\* line and stands on a blocked tile
StaffCrossesBlockedTile ==
    /\ staff.state = "moving"
    /\ staff.path = <<>>
    /\ TileOf(staff.pos) \in BlockedTiles
    /\ TileOf(staff.pos) # staff.target_tile
    /\ staff.pos # StaffStart

----------------------------------------------------------------------------
(* Demand and revenue: the price that weights a purchase                   *)

\* _choose_shelf_purchase: the price of a product in the Prices object handed
\* to choose_purchase, the stored prices in absolute mode and
\* "retail_base_price(base, pricing, product) or demand.<product>" in markup mode
DemandPrice(prices, settings, product) ==
    IF settings.mode = "markup"
    THEN LET retail == RetailBasePrice(prices, settings, product)
         IN IF retail = NoPrice \/ retail = 0 THEN prices[product] ELSE retail
    ELSE prices[product]

\* C36: for every product on a stocked shelf, in both pricing modes and for
\* every set of skill ranks, the price that weights the product in the
\* customer's choice equals the effective sale price that _process_purchase
\* charges for it in the same state.
DemandPriceIsSalePrice ==
    \A k \in DOMAIN shelf_stocks :
        (shelf_stocks[k].qty > 0 /\ shelf_stocks[k].product # "empty")
        => DemandPrice(SalePrices, pricing, shelf_stocks[k].product)
             = EffectiveSalePrice(SalePrices, shelf_stocks[k].product,
                                  ModsLoop(ranks, SkillOrder, NoModifiers), pricing)

----------------------------------------------------------------------------
(* A sale that empties a shelf                                             *)

\* C37 as stated: when a sale takes a shelf's qty to 0, the shelf's product
\* is reset to empty and its cards list is cleared.
SellOutResetsProduct ==
    (sale # NoSale /\ sale.before.qty > 0 /\ sale.after.qty = 0)
    => sale.after.product = "empty" /\ sale.after.cards = <<>>

\* C37: when a sale takes a shelf's qty to 0, its cards list is cleared and
\* the shelf keeps the product it held, and its capacity.
SellOutKeepsProduct ==
    (sale # NoSale /\ sale.before.qty > 0 /\ sale.after.qty = 0)
    => /\ sale.after.cards = <<>>
       /\ sale.after.product = sale.before.product
       /\ sale.after.product # "empty"
       /\ sale.after.max_qty = sale.before.max_qty

\* C37 case: the last listed card of a shelf was sold
LastListedCardSold ==
    /\ sale # NoSale
    /\ sale.before.qty = 1 /\ sale.before.cards # <<>>
    /\ sale.after.qty = 0
    /\ IsSingle(sale.purchase.product)

\* ---------------------------------------------------------------------
\* Buying and selling back: wholesale orders, market singles, fixtures
\* (shop_scene.py, app.py, sellback.py, pricing.py)
\* ---------------------------------------------------------------------
\* spend is a history variable: the last call of a spending operation, with
\* the cost it computed and the money it found
VARIABLE spend
marketVars == <<spend>>

NoSpend == [op |-> "none", cost |-> 0, before |-> 0, parity |-> 0]

Spent(name, cost) ==
    spend' = [op |-> name, cost |-> cost, before |-> money, parity |-> 1 - spend.parity]

\* config.MARKET_BUY_PRICES
MARKET_BUY_PRICES ==
    [k \in {"booster", "deck"} \cup RaritySet |->
        CASE k = "booster" -> 2
          [] k = "deck" -> 11
          [] k = "common" -> 1
          [] k = "uncommon" -> 2
          [] k = "rare" -> 6
          [] k = "epic" -> 12
          [] k = "legendary" -> 28]

\* sellback.market_buy_price(key), pricing.market_buy_price_single(rarity)
MarketBuyPrice(key) ==
    Max(1, IF key \in DOMAIN MARKET_BUY_PRICES THEN MARKET_BUY_PRICES[key] ELSE 1)

\* config.SELLBACK_FACTOR = 0.6, in thousandths
SELLBACK_FACTOR == 600

\* a market that pays nothing back for what it sold
SellbackUnitPriceFree(market_price) == 0

\* sellback.sellback_unit_price(market_price)
SellbackUnitPrice(market_price) ==
    LET f == IF SELLBACK_FACTOR < 0 THEN 0
             ELSE IF SELLBACK_FACTOR > 1000 THEN 1000 ELSE SELLBACK_FACTOR
    IN Max(1, RoundHalfEven(Max(1, market_price) * f, 1000))

\* sellback.sellback_total(market_price, qty)
SellbackTotal(market_price, qty) ==
    LET q == Max(0, qty)
    IN IF q <= 0 THEN 0 ELSE SellbackUnitPrice(market_price) * q

\* every copy may be sold, the copies in the deck included
SellableCopiesOwned(owned, in_deck) == Max(0, owned)

\* sellback.sellable_copies(owned, in_deck)
SellableCopies(owned, in_deck) == Max(0, owned - in_deck)

\* _wholesale_cost(product, qty): pricing.wholesale_order_total, 0 for None
WholesaleCost(product, qty) ==
    LET unit == WholesaleUnitCost(product)
        q == Max(0, qty)
    IN IF unit = NoPrice THEN 0
       ELSE IF q > 0 THEN Max(1, unit * Max(1, q)) ELSE 0

\* a shop that never turns a purchase down
AlwaysAffordable(m, cost) == FALSE

\* "if self.app.state.money < cost: return"
CannotAfford(m, cost) == m < cost

\* _order_suggested(product, qty)
OrderSuggested(product, qty) ==
    LET q == Max(0, qty)
        cost == WholesaleCost(product, q)
    IN /\ Spent("order_suggested", cost)
       /\ IF q <= 0 \/ cost <= 0 \/ CannotAfford(money, cost)
          THEN UNCHANGED <<money, orderVars, inventory>>
          ELSE /\ money' = money - cost
               /\ AppendOrder(IF product = "booster" THEN q ELSE 0,
                              IF product = "deck" THEN q ELSE 0,
                              IF IsSingle(product)
                              THEN [EmptySingles EXCEPT ![RarityOf(product)] = q]
                              ELSE EmptySingles,
                              time_seconds + OrderDelay)

\* the quantities of _order_boosters, _order_decks and _order_singles_current
FixedOrderQty(product) ==
    IF product = "booster" THEN 12 ELSE IF product = "deck" THEN 4 ELSE 10

\* _order_boosters, _order_decks, _order_singles_current with their payment
OrderFixed(product) ==
    LET cost == WholesaleCost(product, FixedOrderQty(product))
    IN /\ Spent("order_fixed", cost)
       /\ IF CannotAfford(money, cost)
          THEN UNCHANGED <<money, orderVars, inventory>>
          ELSE /\ money' = money - cost
               /\ PlaceOrder(product)

\* _buy_market_single with the rarity of market_rarity_index; pick is the
\* card rng.choice takes from the pool
BuyMarketSingle(rarity, pick) ==
    LET price == MarketBuyPrice(rarity)
        pool == {c \in CardIds : CardRarity(c) = rarity}
    IN /\ Spent("market_single", price)
       /\ IF CannotAfford(money, price) \/ pool = {}
          THEN UNCHANGED <<money, collection>>
          ELSE /\ pick \in pool
               /\ money' = money - price
               /\ collection' = [collection EXCEPT ![pick] = @ + 1]

\* economy_rules.FIXTURE_BASE_COST
FIXTURE_BASE_COST == [k \in FixtureKinds |->
    CASE k = "shelf" -> 250 [] k = "counter" -> 800 [] k = "poster" -> 120]

\* economy_rules.fixture_cost(kind, mods); NoPrice stands for None
FixtureCost(kind, mods) ==
    IF kind \notin DOMAIN FIXTURE_BASE_COST THEN NoPrice
    ELSE LET disc == IF mods.fixture_discount_pct < 0 THEN 0
                     ELSE IF mods.fixture_discount_pct > 950 THEN 950
                     ELSE mods.fixture_discount_pct
         IN Max(1, RoundHalfEven(FIXTURE_BASE_COST[kind] * (1000 - disc), 1000))

\* GameApp.try_buy_fixture(kind), as _buy_fixture calls it
TryBuyFixture(kind) ==
    LET mods == ModifiersCall(mods_dirty, cached_mods, ranks)
        cost == FixtureCost(kind, mods.value)
    IN /\ mods_dirty' = mods.dirty
       /\ cached_mods' = mods.cached
       /\ Spent("fixture", IF cost = NoPrice THEN 0 ELSE cost)
       /\ IF cost = NoPrice \/ CannotAfford(money, cost)
          THEN UNCHANGED <<money, fixtures>>
          ELSE /\ money' = money - cost
               /\ fixtures' = [fixtures EXCEPT ![kind] = @ + 1]

\* the pending sale of the sell tab: "type", the key ("key", "card_id" or
\* "rarity"), "qty", "unit" and "total"
SellPending(type, key, qty, market_price) ==
    [type |-> type, key |-> key, qty |-> qty, unit |-> SellbackUnitPrice(market_price),
     total |-> SellbackTotal(market_price, qty)]

\* _queue_sell_items(qty) with sell_item = key
QueueSellItemsPriced(key, qty) ==
    LET available == IF key = "booster" THEN inventory.booster_packs ELSE inventory.decks
        q == Max(0, Min(qty, available))
    IN sell_pending' = IF q <= 0 THEN sell_pending
                       ELSE SellPending("items", key, q, MarketBuyPrice(key))

\* _queue_sell_selected_card(qty) with selected_card_id = cid
QueueSellSelectedCard(cid, qty) ==
    LET sellable == SellableCopies(collection[cid], deck[cid])
        q == Max(0, Min(qty, sellable))
    IN sell_pending' = IF sellable <= 0 \/ q <= 0 THEN sell_pending
                       ELSE SellPending("card", cid, q, MarketBuyPrice(CardRarity(cid)))

\* the pool of _queue_sell_random_rarity and _confirm_sell_pending: the cards
\* of the rarity with a copy outside the deck
RandomPool(coll, dk, rarity) ==
    {c \in CardIds : CardRarity(c) = rarity /\ SellableCopies(coll[c], dk[c]) > 0}

\* _queue_sell_random_rarity(rarity, qty)
QueueSellRandomRarity(rarity, qty) ==
    LET q == Max(0, qty)
    IN sell_pending' = IF q <= 0 \/ RandomPool(collection, deck, rarity) = {}
                       THEN sell_pending
                       ELSE SellPending("random", rarity, q, MarketBuyPrice(rarity))

\* the card rng.choice takes from the pool: first tells whether the draw falls
\* on the first or on the second common
PoolPick(pool, first) ==
    IF first /\ "c1" \in pool THEN "c1"
    ELSE IF ~first /\ "c2" \in pool THEN "c2"
    ELSE CHOOSE c \in pool : TRUE

\* the loop of the random sale: one card at a time
RECURSIVE SellRandomLoop(_, _, _, _, _)
SellRandomLoop(coll, dk, rarity, remaining, first) ==
    LET pool == RandomPool(coll, dk, rarity)
    IN IF remaining <= 0 \/ pool = {} THEN [collection |-> coll, sold |-> 0]
       ELSE LET cid == PoolPick(pool, first)
                r == SellRandomLoop(CollectionRemove(coll, cid, 1), dk, rarity,
                                    remaining - 1, ~first)
            IN [collection |-> r.collection, sold |-> r.sold + 1]

\* xp_from_sell(revenue, mods)
XpFromSell(revenue, mods) ==
    Max(0, RoundHalfEven(Max(0, revenue) * (1000 + Max(0, mods.sales_xp_pct)), 1000))

\* what _confirm_sell_pending takes and earns: q is 0 when it returns early
SellTaken(sp, inv, coll, dk, first) ==
    LET none == [inventory |-> inv, collection |-> coll, q |-> 0]
    IN IF sp.qty <= 0 \/ sp.total <= 0 THEN none
       ELSE IF sp.type = "items"
       THEN LET available == IF sp.key = "booster" THEN inv.booster_packs ELSE inv.decks
                q == Min(sp.qty, available)
            IN IF q <= 0 THEN none
               ELSE [inventory |-> InvTake(inv, IF sp.key = "booster" THEN "booster"
                                                ELSE "deck", q),
                     collection |-> coll, q |-> q]
       ELSE IF sp.type = "card"
       THEN LET q == Min(sp.qty, SellableCopies(coll[sp.key], dk[sp.key]))
            IN IF q <= 0 \/ ~CollectionCanRemove(coll, sp.key, q) THEN none
               ELSE [inventory |-> inv, collection |-> CollectionRemove(coll, sp.key, q),
                     q |-> q]
       ELSE LET r == SellRandomLoop(coll, dk, sp.key, sp.qty, first)
            IN IF r.sold <= 0 THEN none
               ELSE [inventory |-> inv, collection |-> r.collection, q |-> r.sold]

\* _confirm_sell_pending with the money and the xp it earns
ConfirmSellPendingPaid(first) ==
    LET sp == sell_pending
        r == SellTaken(sp, inventory, collection, deck, first)
        earned == sp.unit * r.q
        mods == ModifiersCall(mods_dirty, cached_mods, ranks)
        gained_xp == XpFromSell(earned, mods.value)
    IN /\ sell_pending # NoSell
       /\ sell_pending' = NoSell
       /\ inventory' = r.inventory
       /\ collection' = r.collection
       /\ IF r.q <= 0
          THEN UNCHANGED <<money, mods_dirty, cached_mods, skillVars, xp, xp_call, xp_query>>
          ELSE /\ money' = money + earned
               /\ mods_dirty' = mods.dirty
               /\ cached_mods' = mods.cached
               /\ IF gained_xp > 0 THEN AddXp(gained_xp)
                  ELSE UNCHANGED <<skillVars, xp, xp_call, xp_query>>

\* the quantities of the sell buttons
SellQtys == {1, 5}

\* what the market operations leave alone
marketRest ==
    <<bfsVars, tick_parity, customers, cycleVars, price_call, notified, forecastVars,
      logVars, objects, place_call, try_call, spawnVars, cacheVars, pacingVars,
      shelf_stocks, staff, pricing, sale, mods_out>>

\* the most cards the player keeps while buying market singles
MaxOwned == 1

\* the cards the collection holds
OwnedTotal(coll) == SumOver(coll, CardIds)

\* C38: no sequence made only of acquisitions (a wholesale order and its
\* delivery, a market single, the opening of an ordered booster pack) and of
\* sellbacks of the acquired units ends with more money than it started with.
NoBuySellProfit == money <= START_MONEY

\* a customer pays at the counter for a unit of the shelf: _process_purchase
\* as _move_customer calls it; pick is the listed card rng takes
CustomerPays(key, pick) ==
    LET purchase == [shelf_key |-> key, product |-> shelf_stocks[key].product]
        mods == ModifiersCall(mods_dirty, cached_mods, ranks)
    IN /\ key \in DOMAIN shelf_stocks
       /\ shelf_stocks[key].qty > 0
       /\ SaleApplied(ProcessSale(purchase, shelf_stocks, staff, pick, money, mods.value,
                                  SalePrices, pricing), mods)
       /\ SaleRecorded(purchase)

\* the money the shop may start with: none, enough for an order but no
\* fixture, enough for a shelf but no counter
StartingMoney == {0, 30, 300}

\* C39: starting from money >= 0, money is never negative after any sequence
\* of fixture purchases, wholesale orders (fixed, suggested), market single
\* purchases, customer sales and sellbacks: every spending operation whose
\* cost exceeds the current money changes neither money, fixtures, pending
\* orders nor the collection.
MoneyNeverNegative ==
    /\ [](money >= 0)
    /\ [][spend' # spend /\ spend'.cost > money
          => UNCHANGED <<money, fixtures, pending_orders, collection>>
      ]_<<spend, money, fixtures, pending_orders, collection>>

\* a fixed order was refused for lack of money after money had been spent
OrderRefusedAfterSpending ==
    /\ spend.op = "order_fixed"
    /\ spend.cost > spend.before
    /\ money = spend.before
    /\ money > 0
    /\ fixtures # FixtureInventory(0, 0, 0)

\* ---------------------------------------------------------------------
\* The battle deck against the collection (deck.py, shop_scene.py)
\* ---------------------------------------------------------------------
\* "self.total() < 20" and "self.cards.get(card_id, 0) < 2" of Deck.can_add
DeckLimit == 20
DeckCopies == 2

\* Deck.total()
DeckTotal(dk) == SumOver(dk, CardIds)

\* Deck.can_add(card_id)
DeckCanAdd(dk, cid) == dk[cid] < DeckCopies /\ DeckTotal(dk) < DeckLimit

\* Deck.add(card_id)
DeckAdd(dk, cid) == IF DeckCanAdd(dk, cid) THEN [dk EXCEPT ![cid] = @ + 1] ELSE dk

\* the order of collection.cards.items() in quick_fill
CardSeq == <<"c1", "c2", "u1", "r1">>

\* the inner loop of quick_fill: up to n copies of one card
RECURSIVE FillCopies(_, _, _)
FillCopies(dk, cid, n) ==
    IF n <= 0 \/ DeckTotal(dk) >= DeckLimit THEN dk
    ELSE FillCopies(DeckAdd(dk, cid), cid, n - 1)

\* Deck.quick_fill(collection): the deck is cleared and filled again
RECURSIVE QuickFillFrom(_, _, _)
QuickFillFrom(dk, coll, cards) ==
    IF cards = <<>> \/ DeckTotal(dk) >= DeckLimit THEN dk
    ELSE QuickFillFrom(FillCopies(dk, Head(cards), Min(DeckCopies, coll[Head(cards)])),
                       coll, Tail(cards))

QuickFill(coll) == QuickFillFrom(NoCards, coll, CardSeq)

\* _add_selected_card with selected_card_id = cid
AddSelectedCard(cid) ==
    deck' = IF collection[cid] <= deck[cid] THEN deck ELSE DeckAdd(deck, cid)

\* _auto_fill_deck
AutoFillDeck == deck' = QuickFill(collection)

\* the staff stocks a listed card: apply_restock with a plan naming the card
RestockListedCard(key, cid) ==
    LET plan == RestockPlan(key, SingleProduct(CardRarity(cid)), 1, cid)
        r == ApplyRestock(plan, shelf_stocks, inventory, collection, deck, 1)
    IN /\ shelf_stocks' = r.shelf_stocks
       /\ inventory' = r.inventory
       /\ collection' = r.collection

\* the collections and decks the player may start with
DeckCollections ==
    {[NoCards EXCEPT !["c1"] = 3, !["c2"] = 1, !["r1"] = 1],
     [NoCards EXCEPT !["c1"] = 2, !["u1"] = 2]}
DeckStarts(coll) == {NoCards, [NoCards EXCEPT !["c1"] = 1], QuickFill(coll)}

\* C40: starting from a state where every card's owned count is at least its
\* count in the deck, after any sequence of deck additions and auto-fills,
\* sellbacks (chosen card or random by rarity), listings of a card on a shelf
\* and staff listed-card restocks, every card id still has a collection count
\* at least its deck count.
DeckWithinCollection == \A c \in CardIds : collection[c] >= deck[c]

\* after a sellback and a listing some card has every copy left in the deck
EveryCopyLeftInDeck ==
    /\ money > START_MONEY
    /\ shelf_stocks[ShelfB].cards # <<>>
    /\ \E c \in CardIds : deck[c] >= 1 /\ collection[c] = deck[c]

\*==== SPECIFICATIONS ====
----------------------------------------------------------------------------
(* Specifications                                                          *)

\* the variables of the shop and of its day, and the variables of the sections
\* that follow them
baseVars == <<bfsVars, shopVars, tick_parity, customers, orderVars, uiVars, cycleVars>>
laterVars == <<price_call, saleVars, notified, forecastVars, logVars>>
moreVars == <<layoutVars, spawnVars, cacheVars, pacingVars, marketVars>>
extVars == <<progVars, modVars, laterVars, moreVars, cacheVars, pacingVars, marketVars>>
vars == <<bfsVars, shopVars, tick_parity, customers, orderVars, uiVars, cycleVars, skillVars, extVars>>

\* the pathfinder called once on an arbitrary small grid; the shop is closed
InitBfs ==
    /\ bfs_blocked = {}
    /\ bfs_call = NoCall
    /\ bfs_result = NoResult
    /\ shelf_stocks = << >>
    /\ inventory = Inventory(0, 0, EmptySingles)
    /\ collection = NoCards
    /\ deck = NoCards
    /\ staff = NewStaff(StaffStart)
    /\ tick_parity = 0
    /\ customers = << >>
    /\ pending_orders = << >>
    /\ time_seconds = 0
    /\ order_log = << >>
    /\ applied = << >>
    /\ op = "init"
    /\ sell_pending = NoSell
    /\ pack_open_queue = 0
    /\ pack_anim_active = FALSE
    /\ cycle_active = FALSE
    /\ cycle_paused = FALSE
    /\ cycle_phase = "day"
    /\ phase_timer = 0
    /\ spawned = 0
    /\ customer_schedule = << >>
    /\ day = 1
    /\ tick_log = << >>
    /\ ranks = [s \in Skills |-> 0]
    /\ skill_points = 0
    /\ level = 1
    /\ rank_call = NoRankCall
    /\ xp = 0
    /\ xp_call = NoXpCall
    /\ xp_query = NoXpQuery
    /\ mods_dirty = TRUE
    /\ cached_mods = NoModifiers
    /\ mods_out = NoModsCall
    /\ price_call = NoPriceCall
    /\ money = START_MONEY
    /\ pricing = PricingSettings("absolute", 0)
    /\ sale = NoSale
    /\ notified = NoNotified
    /\ adays = << >>
    /\ forecast = NoForecast
    /\ event_log = << >>
    /\ max_events = DefaultMaxEvents
    /\ logged = << >>
    /\ objects = DefaultObjects
    /\ fixtures = FixtureInventory(0, 0, 0)
    /\ place_call = NoPlaceCall
    /\ try_call = NoTryCall
    /\ spawn_queries = <<SpawnQuery(1), SpawnQuery(1)>>
    /\ tooltips = << >>
    /\ tooltip_max = 1
    /\ tooltip_used = << >>
    /\ texts = << >>
    /\ text_max = 1
    /\ frame_hits = 0
    /\ frame_misses = 0
    /\ text_used = << >>
    /\ blocked_at = -1
    /\ spend = NoSpend

NextBfs ==
    \/ \E t \in BfsTiles : BfsBlock(t) /\ UNCHANGED <<shopVars, tick_parity, customers, orderVars, uiVars, cycleVars, skillVars, extVars>>
    \/ \E start \in BfsTiles, goal \in BfsGoals :
          BfsCall(start, goal) /\ UNCHANGED <<shopVars, tick_parity, customers, orderVars, uiVars, cycleVars, skillVars, extVars>>

SpecBfs == InitBfs /\ [][NextBfs]_vars

\* update_staff called again and again, as the frame loop does while the day
\* runs, and nothing else touching the shop
InitStaff ==
    /\ bfs_blocked = {}
    /\ bfs_call = NoCall
    /\ bfs_result = NoResult
    /\ shelf_stocks \in StaffShelves
    /\ inventory \in StaffInventories
    /\ collection = [NoCards EXCEPT !["c1"] = 1]
    /\ deck = NoCards
    /\ staff = NewStaff(StaffStart)
    /\ tick_parity = 0
    /\ customers = << >>
    /\ pending_orders = << >>
    /\ time_seconds = 0
    /\ order_log = << >>
    /\ applied = << >>
    /\ op = "init"
    /\ sell_pending = NoSell
    /\ pack_open_queue = 0
    /\ pack_anim_active = FALSE
    /\ cycle_active = FALSE
    /\ cycle_paused = FALSE
    /\ cycle_phase = "day"
    /\ phase_timer = 0
    /\ spawned = 0
    /\ customer_schedule = << >>
    /\ day = 1
    /\ tick_log = << >>
    /\ ranks = [s \in Skills |-> 0]
    /\ skill_points = 0
    /\ level = 1
    /\ rank_call = NoRankCall
    /\ xp = 0
    /\ xp_call = NoXpCall
    /\ xp_query = NoXpQuery
    /\ mods_dirty = TRUE
    /\ cached_mods = NoModifiers
    /\ mods_out = NoModsCall
    /\ price_call = NoPriceCall
    /\ money = START_MONEY
    /\ pricing = PricingSettings("absolute", 0)
    /\ sale = NoSale
    /\ notified = NoNotified
    /\ adays = << >>
    /\ forecast = NoForecast
    /\ event_log = << >>
    /\ max_events = DefaultMaxEvents
    /\ logged = << >>
    /\ objects = DefaultObjects
    /\ fixtures = FixtureInventory(0, 0, 0)
    /\ place_call = NoPlaceCall
    /\ try_call = NoTryCall
    /\ spawn_queries = <<SpawnQuery(1), SpawnQuery(1)>>
    /\ tooltips = << >>
    /\ tooltip_max = 1
    /\ tooltip_used = << >>
    /\ texts = << >>
    /\ text_max = 1
    /\ frame_hits = 0
    /\ frame_misses = 0
    /\ text_used = << >>
    /\ blocked_at = -1
    /\ spend = NoSpend

NextStaff ==
    \E dt \in StaffDTs :
        StaffTick(dt) /\ TickCounted /\ UNCHANGED <<bfsVars, customers, orderVars, uiVars, cycleVars, skillVars, extVars>>

SpecStaff == InitStaff /\ [][NextStaff]_vars /\ WF_tick_parity(TickCounted)

\* the open shop: customers walk, choose and pay, the staff restocks and the
\* player stocks shelves and lists cards, in any order
InitShop ==
    /\ bfs_blocked = {}
    /\ bfs_call = NoCall
    /\ bfs_result = NoResult
    /\ shelf_stocks = (ShelfA :> ShelfStock("booster", 1, ShelfMax, <<>>))
                      @@ (ShelfB :> ShelfStock("empty", 0, ShelfMax, <<>>))
    /\ inventory = Inventory(1, 0, EmptySingles)
    /\ collection = [NoCards EXCEPT !["c1"] = 2]
    /\ deck = NoCards
    /\ staff = NewStaff(StaffStart)
    /\ tick_parity = 0
    /\ customers = << >>
    /\ pending_orders = << >>
    /\ time_seconds = 0
    /\ order_log = << >>
    /\ applied = << >>
    /\ op = "init"
    /\ sell_pending = NoSell
    /\ pack_open_queue = 0
    /\ pack_anim_active = FALSE
    /\ cycle_active = FALSE
    /\ cycle_paused = FALSE
    /\ cycle_phase = "day"
    /\ phase_timer = 0
    /\ spawned = 0
    /\ customer_schedule = << >>
    /\ day = 1
    /\ tick_log = << >>
    /\ ranks = [s \in Skills |-> 0]
    /\ skill_points = 0
    /\ level = 1
    /\ rank_call = NoRankCall
    /\ xp = 0
    /\ xp_call = NoXpCall
    /\ xp_query = NoXpQuery
    /\ mods_dirty = TRUE
    /\ cached_mods = NoModifiers
    /\ mods_out = NoModsCall
    /\ price_call = NoPriceCall
    /\ money = START_MONEY
    /\ pricing = PricingSettings("absolute", 0)
    /\ sale = NoSale
    /\ notified = NoNotified
    /\ adays = << >>
    /\ forecast = NoForecast
    /\ event_log = << >>
    /\ max_events = DefaultMaxEvents
    /\ logged = << >>
    /\ objects = DefaultObjects
    /\ fixtures = FixtureInventory(0, 0, 0)
    /\ place_call = NoPlaceCall
    /\ try_call = NoTryCall
    /\ spawn_queries = <<SpawnQuery(1), SpawnQuery(1)>>
    /\ tooltips = << >>
    /\ tooltip_max = 1
    /\ tooltip_used = << >>
    /\ texts = << >>
    /\ text_max = 1
    /\ frame_hits = 0
    /\ frame_misses = 0
    /\ text_used = << >>
    /\ blocked_at = -1
    /\ spend = NoSpend

NextShop ==
    \/ \E k \in DOMAIN shelf_stocks :
          /\ Len(customers) < MaxCustomers
          /\ SpawnCustomer(k)
          /\ UNCHANGED <<bfsVars, tick_parity, orderVars, uiVars, cycleVars, skillVars, extVars>>
    \/ \E i \in 1 .. MaxCustomers, dt \in ShopDTs :
          MoveOneCustomer(i, dt) /\ UNCHANGED <<bfsVars, tick_parity, orderVars, uiVars, cycleVars, skillVars, extVars>>
    \/ \E dt \in ShopDTs :
          StaffTick(dt) /\ UNCHANGED <<bfsVars, tick_parity, customers, orderVars, uiVars, cycleVars, skillVars, extVars>>
    \/ \E k \in DOMAIN shelf_stocks, product \in Range(Products) : \E amount \in StockAmounts(k) :
          StockShelf(k, product, amount) /\ UNCHANGED <<bfsVars, tick_parity, orderVars, uiVars, cycleVars, skillVars, extVars>>
    \/ \E k \in DOMAIN shelf_stocks, cid \in CardIds :
          ListSelectedCardToShelf(k, cid) /\ UNCHANGED <<bfsVars, tick_parity, orderVars, uiVars, cycleVars, skillVars, extVars>>

SpecShop == InitShop /\ [][NextShop]_vars

\* orders appended by the order buttons or restored from a save, time
\* passing, and process_pending_orders passes
InitOrders ==
    /\ bfs_blocked = {}
    /\ bfs_call = NoCall
    /\ bfs_result = NoResult
    /\ shelf_stocks = << >>
    /\ inventory = Inventory(0, 0, EmptySingles)
    /\ collection = NoCards
    /\ deck = NoCards
    /\ staff = NewStaff(StaffStart)
    /\ tick_parity = 0
    /\ customers = << >>
    /\ pending_orders = << >>
    /\ time_seconds = 0
    /\ order_log = << >>
    /\ applied = << >>
    /\ op = "init"
    /\ sell_pending = NoSell
    /\ pack_open_queue = 0
    /\ pack_anim_active = FALSE
    /\ cycle_active = FALSE
    /\ cycle_paused = FALSE
    /\ cycle_phase = "day"
    /\ phase_timer = 0
    /\ spawned = 0
    /\ customer_schedule = << >>
    /\ day = 1
    /\ tick_log = << >>
    /\ ranks = [s \in Skills |-> 0]
    /\ skill_points = 0
    /\ level = 1
    /\ rank_call = NoRankCall
    /\ xp = 0
    /\ xp_call = NoXpCall
    /\ xp_query = NoXpQuery
    /\ mods_dirty = TRUE
    /\ cached_mods = NoModifiers
    /\ mods_out = NoModsCall
    /\ price_call = NoPriceCall
    /\ money = START_MONEY
    /\ pricing = PricingSettings("absolute", 0)
    /\ sale = NoSale
    /\ notified = NoNotified
    /\ adays = << >>
    /\ forecast = NoForecast
    /\ event_log = << >>
    /\ max_events = DefaultMaxEvents
    /\ logged = << >>
    /\ objects = DefaultObjects
    /\ fixtures = FixtureInventory(0, 0, 0)
    /\ place_call = NoPlaceCall
    /\ try_call = NoTryCall
    /\ spawn_queries = <<SpawnQuery(1), SpawnQuery(1)>>
    /\ tooltips = << >>
    /\ tooltip_max = 1
    /\ tooltip_used = << >>
    /\ texts = << >>
    /\ text_max = 1
    /\ frame_hits = 0
    /\ frame_misses = 0
    /\ text_used = << >>
    /\ blocked_at = -1
    /\ spend = NoSpend

otherOrderVars ==
    <<bfsVars, shelf_stocks, collection, deck, staff, tick_parity, customers, uiVars, cycleVars, skillVars, extVars>>

NextOrders ==
    \/ \E product \in {"booster", "deck", "single_common"} :
          PlaceOrder(product) /\ UNCHANGED otherOrderVars
    \/ \E deliver_at \in {0, 200} :
          LoadOrder(deliver_at) /\ UNCHANGED otherOrderVars
    \/ \E d \in TimeSteps : AdvanceTime(d) /\ UNCHANGED otherOrderVars
    \/ ProcessOrdersPass /\ UNCHANGED otherOrderVars

SpecOrders == InitOrders /\ [][NextOrders]_vars
\* the warehouse: everything that takes from or adds to the inventory, in
\* any order
InitWarehouse ==
    /\ bfs_blocked = {}
    /\ bfs_call = NoCall
    /\ bfs_result = NoResult
    /\ shelf_stocks = (ShelfA :> ShelfStock("booster", 0, ShelfMax, <<>>))
                      @@ (ShelfB :> ShelfStock("single_common", 0, ShelfMax, <<>>))
    /\ inventory = Inventory(1, 1, EmptySingles)
    /\ collection = NoCards
    /\ deck = NoCards
    /\ staff = NewStaff(StaffStart)
    /\ tick_parity = 0
    /\ customers = << >>
    /\ pending_orders = << >>
    /\ time_seconds = 0
    /\ order_log = << >>
    /\ applied = << >>
    /\ op = "init"
    /\ sell_pending = NoSell
    /\ pack_open_queue = 0
    /\ pack_anim_active = FALSE
    /\ cycle_active = FALSE
    /\ cycle_paused = FALSE
    /\ cycle_phase = "day"
    /\ phase_timer = 0
    /\ spawned = 0
    /\ customer_schedule = << >>
    /\ day = 1
    /\ tick_log = << >>
    /\ ranks = [s \in Skills |-> 0]
    /\ skill_points = 0
    /\ level = 1
    /\ rank_call = NoRankCall
    /\ xp = 0
    /\ xp_call = NoXpCall
    /\ xp_query = NoXpQuery
    /\ mods_dirty = TRUE
    /\ cached_mods = NoModifiers
    /\ mods_out = NoModsCall
    /\ price_call = NoPriceCall
    /\ money = START_MONEY
    /\ pricing = PricingSettings("absolute", 0)
    /\ sale = NoSale
    /\ notified = NoNotified
    /\ adays = << >>
    /\ forecast = NoForecast
    /\ event_log = << >>
    /\ max_events = DefaultMaxEvents
    /\ logged = << >>
    /\ objects = DefaultObjects
    /\ fixtures = FixtureInventory(0, 0, 0)
    /\ place_call = NoPlaceCall
    /\ try_call = NoTryCall
    /\ spawn_queries = <<SpawnQuery(1), SpawnQuery(1)>>
    /\ tooltips = << >>
    /\ tooltip_max = 1
    /\ tooltip_used = << >>
    /\ texts = << >>
    /\ text_max = 1
    /\ frame_hits = 0
    /\ frame_misses = 0
    /\ text_used = << >>
    /\ blocked_at = -1
    /\ spend = NoSpend

NextWarehouse ==
    \/ /\ StaffTick(StockTime)
       /\ UNCHANGED <<bfsVars, tick_parity, customers, orderVars, uiVars, cycleVars, skillVars, extVars>>
    \/ \E k \in DOMAIN shelf_stocks, product \in {"booster", "single_common"} :
          \E amount \in StockAmounts(k) :
             /\ StockShelf(k, product, amount)
             /\ UNCHANGED <<bfsVars, tick_parity, orderVars, uiVars, cycleVars, skillVars, extVars>>
    \/ \E key \in {"booster", "deck"} :
          \E qty \in SellAmounts(InvAvailable(inventory, key)) :
             /\ QueueSellItems(key, qty)
             /\ UNCHANGED <<bfsVars, shelf_stocks, deck, staff, tick_parity, customers,
                            orderVars, cycleVars, skillVars, extVars>>
    \/ /\ ConfirmSellPending
       /\ UNCHANGED <<bfsVars, shelf_stocks, deck, staff, tick_parity, customers, orderVars, cycleVars, skillVars, extVars>>
    \/ \E count \in {1, 5} :
          /\ QueueOpenSelectedPacks(count)
          /\ UNCHANGED <<bfsVars, shelf_stocks, deck, staff, tick_parity, customers,
                         orderVars, cycleVars, skillVars, extVars>>
    \/ /\ UpdatePackAnim
       /\ UNCHANGED <<bfsVars, shelf_stocks, deck, staff, tick_parity, customers, orderVars, cycleVars, skillVars, extVars>>
    \/ /\ AppendOrder(1, 0, [EmptySingles EXCEPT !["common"] = 1], 0)
       /\ UNCHANGED otherOrderVars
    \/ /\ ProcessOrdersPass
       /\ UNCHANGED otherOrderVars

SpecWarehouse == InitWarehouse /\ [][NextWarehouse]_vars
\* the frame loop from a fresh shop with two orders on their way: the player
\* starts the day, pauses and resumes at any frame
InitFrame ==
    /\ bfs_blocked = {}
    /\ bfs_call = NoCall
    /\ bfs_result = NoResult
    /\ shelf_stocks = (ShelfA :> ShelfStock("booster", 1, ShelfMax, <<>>))
                      @@ (ShelfB :> ShelfStock("empty", 0, ShelfMax, <<>>))
    /\ inventory = Inventory(0, 0, EmptySingles)
    /\ collection = NoCards
    /\ deck = NoCards
    /\ staff = NewStaff(StaffStart)
    /\ tick_parity = 0
    /\ customers = << >>
    /\ pending_orders = <<InventoryOrder(2, 0, EmptySingles, 30, 1),
                          InventoryOrder(0, 1, EmptySingles, 230, 2)>>
    /\ time_seconds = 0
    /\ order_log = pending_orders
    /\ applied = <<[count |-> 0, at |-> -1], [count |-> 0, at |-> -1]>>
    /\ op = "init"
    /\ sell_pending = NoSell
    /\ pack_open_queue = 0
    /\ pack_anim_active = FALSE
    /\ cycle_active = FALSE
    /\ cycle_paused = FALSE
    /\ cycle_phase = "day"
    /\ phase_timer = 0
    /\ spawned = 0
    /\ customer_schedule = << >>
    /\ day = 1
    /\ tick_log = << >>
    /\ ranks = [s \in Skills |-> 0]
    /\ skill_points = 0
    /\ level = 1
    /\ rank_call = NoRankCall
    /\ xp = 0
    /\ xp_call = NoXpCall
    /\ xp_query = NoXpQuery
    /\ mods_dirty = TRUE
    /\ cached_mods = NoModifiers
    /\ mods_out = NoModsCall
    /\ price_call = NoPriceCall
    /\ money = START_MONEY
    /\ pricing = PricingSettings("absolute", 0)
    /\ sale = NoSale
    /\ notified = NoNotified
    /\ adays = << >>
    /\ forecast = NoForecast
    /\ event_log = << >>
    /\ max_events = DefaultMaxEvents
    /\ logged = << >>
    /\ objects = DefaultObjects
    /\ fixtures = FixtureInventory(0, 0, 0)
    /\ place_call = NoPlaceCall
    /\ try_call = NoTryCall
    /\ spawn_queries = <<SpawnQuery(1), SpawnQuery(1)>>
    /\ tooltips = << >>
    /\ tooltip_max = 1
    /\ tooltip_used = << >>
    /\ texts = << >>
    /\ text_max = 1
    /\ frame_hits = 0
    /\ frame_misses = 0
    /\ text_used = << >>
    /\ blocked_at = -1
    /\ spend = NoSpend

NextFrame ==
    \/ Frame("none") /\ UNCHANGED <<bfsVars, tick_parity, uiVars, skillVars, extVars>>
    \/ Frame("start_day") /\ UNCHANGED <<bfsVars, tick_parity, uiVars, skillVars, extVars>>
    \/ Frame("end_day") /\ UNCHANGED <<bfsVars, tick_parity, uiVars, skillVars, extVars>>

SpecFrame == InitFrame /\ [][NextFrame]_vars
\* rank_up called on any skill of the tree, from any of the starting ranks,
\* levels and skill points
InitSkill ==
    /\ bfs_blocked = {}
    /\ bfs_call = NoCall
    /\ bfs_result = NoResult
    /\ shelf_stocks = << >>
    /\ inventory = Inventory(0, 0, EmptySingles)
    /\ collection = NoCards
    /\ deck = NoCards
    /\ staff = NewStaff(StaffStart)
    /\ tick_parity = 0
    /\ customers = << >>
    /\ pending_orders = << >>
    /\ time_seconds = 0
    /\ order_log = << >>
    /\ applied = << >>
    /\ op = "init"
    /\ sell_pending = NoSell
    /\ pack_open_queue = 0
    /\ pack_anim_active = FALSE
    /\ cycle_active = FALSE
    /\ cycle_paused = FALSE
    /\ cycle_phase = "day"
    /\ phase_timer = 0
    /\ spawned = 0
    /\ customer_schedule = << >>
    /\ day = 1
    /\ tick_log = << >>
    /\ ranks \in SkillRanks
    /\ skill_points \in 0 .. MaxSkillPoints
    /\ level \in SkillLevels
    /\ rank_call = NoRankCall
    /\ xp = 0
    /\ xp_call = NoXpCall
    /\ xp_query = NoXpQuery
    /\ mods_dirty = TRUE
    /\ cached_mods = NoModifiers
    /\ mods_out = NoModsCall
    /\ price_call = NoPriceCall
    /\ money = START_MONEY
    /\ pricing = PricingSettings("absolute", 0)
    /\ sale = NoSale
    /\ notified = NoNotified
    /\ adays = << >>
    /\ forecast = NoForecast
    /\ event_log = << >>
    /\ max_events = DefaultMaxEvents
    /\ logged = << >>
    /\ objects = DefaultObjects
    /\ fixtures = FixtureInventory(0, 0, 0)
    /\ place_call = NoPlaceCall
    /\ try_call = NoTryCall
    /\ spawn_queries = <<SpawnQuery(1), SpawnQuery(1)>>
    /\ tooltips = << >>
    /\ tooltip_max = 1
    /\ tooltip_used = << >>
    /\ texts = << >>
    /\ text_max = 1
    /\ frame_hits = 0
    /\ frame_misses = 0
    /\ text_used = << >>
    /\ blocked_at = -1
    /\ spend = NoSpend

NextSkill ==
    \E skill_id \in Skills :
        /\ RankUp(skill_id)
        /\ UNCHANGED <<baseVars, progVars, laterVars, moreVars>>

SpecSkill == InitSkill /\ [][NextSkill]_vars
\* a progression followed from a fresh start, or from the last levels below
\* the cap with every point unspent: add_xp and rank_up in any order
InitProgress ==
    /\ bfs_blocked = {}
    /\ bfs_call = NoCall
    /\ bfs_result = NoResult
    /\ shelf_stocks = << >>
    /\ inventory = Inventory(0, 0, EmptySingles)
    /\ collection = NoCards
    /\ deck = NoCards
    /\ staff = NewStaff(StaffStart)
    /\ tick_parity = 0
    /\ customers = << >>
    /\ pending_orders = << >>
    /\ time_seconds = 0
    /\ order_log = << >>
    /\ applied = << >>
    /\ op = "init"
    /\ sell_pending = NoSell
    /\ pack_open_queue = 0
    /\ pack_anim_active = FALSE
    /\ cycle_active = FALSE
    /\ cycle_paused = FALSE
    /\ cycle_phase = "day"
    /\ phase_timer = 0
    /\ spawned = 0
    /\ customer_schedule = << >>
    /\ day = 1
    /\ tick_log = << >>
    /\ ranks = [s \in Skills |-> 0]
    /\ level \in {1, MAX_LEVEL - 2}
    /\ skill_points = level - 1
    /\ rank_call = NoRankCall
    /\ xp = 0
    /\ xp_call = NoXpCall
    /\ xp_query = NoXpQuery
    /\ mods_dirty = TRUE
    /\ cached_mods = NoModifiers
    /\ mods_out = NoModsCall
    /\ price_call = NoPriceCall
    /\ money = START_MONEY
    /\ pricing = PricingSettings("absolute", 0)
    /\ sale = NoSale
    /\ notified = NoNotified
    /\ adays = << >>
    /\ forecast = NoForecast
    /\ event_log = << >>
    /\ max_events = DefaultMaxEvents
    /\ logged = << >>
    /\ objects = DefaultObjects
    /\ fixtures = FixtureInventory(0, 0, 0)
    /\ place_call = NoPlaceCall
    /\ try_call = NoTryCall
    /\ spawn_queries = <<SpawnQuery(1), SpawnQuery(1)>>
    /\ tooltips = << >>
    /\ tooltip_max = 1
    /\ tooltip_used = << >>
    /\ texts = << >>
    /\ text_max = 1
    /\ frame_hits = 0
    /\ frame_misses = 0
    /\ text_used = << >>
    /\ blocked_at = -1
    /\ spend = NoSpend

NextProgress ==
    \/ /\ level \in ProgressLevels
       /\ \E amount \in ProgressXp(level, xp) : AddXp(amount)
       /\ UNCHANGED <<baseVars, modVars, laterVars, moreVars>>
    \/ /\ SumOver(ranks, Skills) < MaxSpent
       /\ \E skill_id \in Skills : RankUp(skill_id)
       /\ UNCHANGED <<baseVars, progVars, laterVars, moreVars>>

SpecProgress == InitProgress /\ [][NextProgress]_vars

\* add_xp called with amounts around the thresholds on progressions of the
\* first levels and of the levels at the cap
InitXp ==
    /\ bfs_blocked = {}
    /\ bfs_call = NoCall
    /\ bfs_result = NoResult
    /\ shelf_stocks = << >>
    /\ inventory = Inventory(0, 0, EmptySingles)
    /\ collection = NoCards
    /\ deck = NoCards
    /\ staff = NewStaff(StaffStart)
    /\ tick_parity = 0
    /\ customers = << >>
    /\ pending_orders = << >>
    /\ time_seconds = 0
    /\ order_log = << >>
    /\ applied = << >>
    /\ op = "init"
    /\ sell_pending = NoSell
    /\ pack_open_queue = 0
    /\ pack_anim_active = FALSE
    /\ cycle_active = FALSE
    /\ cycle_paused = FALSE
    /\ cycle_phase = "day"
    /\ phase_timer = 0
    /\ spawned = 0
    /\ customer_schedule = << >>
    /\ day = 1
    /\ tick_log = << >>
    /\ ranks = [s \in Skills |-> 0]
    /\ level \in XpLevels
    /\ skill_points \in {0, TestSkillPoints}
    /\ rank_call = NoRankCall
    /\ xp \in XpStarts(level)
    /\ xp_call = NoXpCall
    /\ xp_query = NoXpQuery
    /\ mods_dirty = TRUE
    /\ cached_mods = NoModifiers
    /\ mods_out = NoModsCall
    /\ price_call = NoPriceCall
    /\ money = START_MONEY
    /\ pricing = PricingSettings("absolute", 0)
    /\ sale = NoSale
    /\ notified = NoNotified
    /\ adays = << >>
    /\ forecast = NoForecast
    /\ event_log = << >>
    /\ max_events = DefaultMaxEvents
    /\ logged = << >>
    /\ objects = DefaultObjects
    /\ fixtures = FixtureInventory(0, 0, 0)
    /\ place_call = NoPlaceCall
    /\ try_call = NoTryCall
    /\ spawn_queries = <<SpawnQuery(1), SpawnQuery(1)>>
    /\ tooltips = << >>
    /\ tooltip_max = 1
    /\ tooltip_used = << >>
    /\ texts = << >>
    /\ text_max = 1
    /\ frame_hits = 0
    /\ frame_misses = 0
    /\ text_used = << >>
    /\ blocked_at = -1
    /\ spend = NoSpend

NextXp ==
    /\ xp_call.n < MaxXpCalls
    /\ \E amount \in XpAmounts(level, xp) : AddXp(amount)
    /\ UNCHANGED <<baseVars, modVars, laterVars, moreVars>>

SpecXp == InitXp /\ [][NextXp]_vars

\* xp_to_next asked about every level
InitXpCurve ==
    /\ bfs_blocked = {}
    /\ bfs_call = NoCall
    /\ bfs_result = NoResult
    /\ shelf_stocks = << >>
    /\ inventory = Inventory(0, 0, EmptySingles)
    /\ collection = NoCards
    /\ deck = NoCards
    /\ staff = NewStaff(StaffStart)
    /\ tick_parity = 0
    /\ customers = << >>
    /\ pending_orders = << >>
    /\ time_seconds = 0
    /\ order_log = << >>
    /\ applied = << >>
    /\ op = "init"
    /\ sell_pending = NoSell
    /\ pack_open_queue = 0
    /\ pack_anim_active = FALSE
    /\ cycle_active = FALSE
    /\ cycle_paused = FALSE
    /\ cycle_phase = "day"
    /\ phase_timer = 0
    /\ spawned = 0
    /\ customer_schedule = << >>
    /\ day = 1
    /\ tick_log = << >>
    /\ ranks = [s \in Skills |-> 0]
    /\ skill_points = 0
    /\ level = 1
    /\ rank_call = NoRankCall
    /\ xp = 0
    /\ xp_call = NoXpCall
    /\ xp_query = NoXpQuery
    /\ mods_dirty = TRUE
    /\ cached_mods = NoModifiers
    /\ mods_out = NoModsCall
    /\ price_call = NoPriceCall
    /\ money = START_MONEY
    /\ pricing = PricingSettings("absolute", 0)
    /\ sale = NoSale
    /\ notified = NoNotified
    /\ adays = << >>
    /\ forecast = NoForecast
    /\ event_log = << >>
    /\ max_events = DefaultMaxEvents
    /\ logged = << >>
    /\ objects = DefaultObjects
    /\ fixtures = FixtureInventory(0, 0, 0)
    /\ place_call = NoPlaceCall
    /\ try_call = NoTryCall
    /\ spawn_queries = <<SpawnQuery(1), SpawnQuery(1)>>
    /\ tooltips = << >>
    /\ tooltip_max = 1
    /\ tooltip_used = << >>
    /\ texts = << >>
    /\ text_max = 1
    /\ frame_hits = 0
    /\ frame_misses = 0
    /\ text_used = << >>
    /\ blocked_at = -1
    /\ spend = NoSpend

NextXpCurve ==
    \E lvl \in QueryLevels : QueryXpToNext(lvl) /\ UNCHANGED <<baseVars, modVars, laterVars, moreVars>>

SpecXpCurve == InitXpCurve /\ [][NextXpCurve]_vars
\* rank_up and modifiers() called in any order on a newly created
\* SkillTreeState
InitMods ==
    /\ bfs_blocked = {}
    /\ bfs_call = NoCall
    /\ bfs_result = NoResult
    /\ shelf_stocks = << >>
    /\ inventory = Inventory(0, 0, EmptySingles)
    /\ collection = NoCards
    /\ deck = NoCards
    /\ staff = NewStaff(StaffStart)
    /\ tick_parity = 0
    /\ customers = << >>
    /\ pending_orders = << >>
    /\ time_seconds = 0
    /\ order_log = << >>
    /\ applied = << >>
    /\ op = "init"
    /\ sell_pending = NoSell
    /\ pack_open_queue = 0
    /\ pack_anim_active = FALSE
    /\ cycle_active = FALSE
    /\ cycle_paused = FALSE
    /\ cycle_phase = "day"
    /\ phase_timer = 0
    /\ spawned = 0
    /\ customer_schedule = << >>
    /\ day = 1
    /\ tick_log = << >>
    /\ ranks \in ModRanks
    /\ skill_points \in {0, MaxSkillPoints}
    /\ level = ModLevel
    /\ rank_call = NoRankCall
    /\ xp = 0
    /\ xp_call = NoXpCall
    /\ xp_query = NoXpQuery
    /\ mods_dirty = TRUE
    /\ cached_mods = NoModifiers
    /\ mods_out = NoModsCall
    /\ price_call = NoPriceCall
    /\ money = START_MONEY
    /\ pricing = PricingSettings("absolute", 0)
    /\ sale = NoSale
    /\ notified = NoNotified
    /\ adays = << >>
    /\ forecast = NoForecast
    /\ event_log = << >>
    /\ max_events = DefaultMaxEvents
    /\ logged = << >>
    /\ objects = DefaultObjects
    /\ fixtures = FixtureInventory(0, 0, 0)
    /\ place_call = NoPlaceCall
    /\ try_call = NoTryCall
    /\ spawn_queries = <<SpawnQuery(1), SpawnQuery(1)>>
    /\ tooltips = << >>
    /\ tooltip_max = 1
    /\ tooltip_used = << >>
    /\ texts = << >>
    /\ text_max = 1
    /\ frame_hits = 0
    /\ frame_misses = 0
    /\ text_used = << >>
    /\ blocked_at = -1
    /\ spend = NoSpend

NextMods ==
    \/ \E skill_id \in Skills : RankUp(skill_id) /\ UNCHANGED <<baseVars, progVars, laterVars, moreVars>>
    \/ GetModifiers /\ UNCHANGED <<baseVars, progVars, laterVars, moreVars>>

SpecMods == InitMods /\ [][NextMods]_vars
\* effective_sale_price called for every product key, pricing mode, stored
\* price, markup and sell_price_pct of the sets above
InitPrice ==
    /\ bfs_blocked = {}
    /\ bfs_call = NoCall
    /\ bfs_result = NoResult
    /\ shelf_stocks = << >>
    /\ inventory = Inventory(0, 0, EmptySingles)
    /\ collection = NoCards
    /\ deck = NoCards
    /\ staff = NewStaff(StaffStart)
    /\ tick_parity = 0
    /\ customers = << >>
    /\ pending_orders = << >>
    /\ time_seconds = 0
    /\ order_log = << >>
    /\ applied = << >>
    /\ op = "init"
    /\ sell_pending = NoSell
    /\ pack_open_queue = 0
    /\ pack_anim_active = FALSE
    /\ cycle_active = FALSE
    /\ cycle_paused = FALSE
    /\ cycle_phase = "day"
    /\ phase_timer = 0
    /\ spawned = 0
    /\ customer_schedule = << >>
    /\ day = 1
    /\ tick_log = << >>
    /\ ranks = [s \in Skills |-> 0]
    /\ skill_points = 0
    /\ level = 1
    /\ rank_call = NoRankCall
    /\ xp = 0
    /\ xp_call = NoXpCall
    /\ xp_query = NoXpQuery
    /\ mods_dirty = TRUE
    /\ cached_mods = NoModifiers
    /\ mods_out = NoModsCall
    /\ price_call = NoPriceCall
    /\ money = START_MONEY
    /\ pricing = PricingSettings("absolute", 0)
    /\ sale = NoSale
    /\ notified = NoNotified
    /\ adays = << >>
    /\ forecast = NoForecast
    /\ event_log = << >>
    /\ max_events = DefaultMaxEvents
    /\ logged = << >>
    /\ objects = DefaultObjects
    /\ fixtures = FixtureInventory(0, 0, 0)
    /\ place_call = NoPlaceCall
    /\ try_call = NoTryCall
    /\ spawn_queries = <<SpawnQuery(1), SpawnQuery(1)>>
    /\ tooltips = << >>
    /\ tooltip_max = 1
    /\ tooltip_used = << >>
    /\ texts = << >>
    /\ text_max = 1
    /\ frame_hits = 0
    /\ frame_misses = 0
    /\ text_used = << >>
    /\ blocked_at = -1
    /\ spend = NoSpend

NextPrice ==
    \E product \in ProductSet, price \in PriceBases, mode \in {"absolute", "markup"},
       markup \in MarkupPcts, pct \in SellPcts :
        /\ PriceCall(product, price, PricingSettings(mode, markup), pct)
        /\ UNCHANGED <<baseVars, skillVars, progVars, modVars, saleVars, notified,
                       forecastVars, logVars, moreVars>>

SpecPrice == InitPrice /\ [][NextPrice]_vars
\* the open shop with its money: customers heading for shelf A, which holds
\* one booster, pay at the counter while the player lists cards and ranks up
\* haggle; the warehouse is empty, so the staff has nothing to carry
InitSales ==
    /\ bfs_blocked = {}
    /\ bfs_call = NoCall
    /\ bfs_result = NoResult
    /\ shelf_stocks = (ShelfA :> ShelfStock("booster", 1, ShelfMax, <<>>))
                      @@ (ShelfB :> ShelfStock("empty", 0, ShelfMax, <<>>))
    /\ inventory = Inventory(0, 0, EmptySingles)
    /\ collection = [NoCards EXCEPT !["c1"] = 2]
    /\ deck = NoCards
    /\ staff = NewStaff(StaffStart)
    /\ tick_parity = 0
    /\ customers = << >>
    /\ pending_orders = << >>
    /\ time_seconds = 0
    /\ order_log = << >>
    /\ applied = << >>
    /\ op = "init"
    /\ sell_pending = NoSell
    /\ pack_open_queue = 0
    /\ pack_anim_active = FALSE
    /\ cycle_active = FALSE
    /\ cycle_paused = FALSE
    /\ cycle_phase = "day"
    /\ phase_timer = 0
    /\ spawned = 0
    /\ customer_schedule = << >>
    /\ day = 1
    /\ tick_log = << >>
    /\ ranks = [[s \in Skills |-> 0] EXCEPT !["haggle"] = 5]
    /\ skill_points = 1
    /\ level = 2
    /\ rank_call = NoRankCall
    /\ xp = 0
    /\ xp_call = NoXpCall
    /\ xp_query = NoXpQuery
    /\ mods_dirty = TRUE
    /\ cached_mods = NoModifiers
    /\ mods_out = NoModsCall
    /\ price_call = NoPriceCall
    /\ money = START_MONEY
    /\ pricing \in {PricingSettings("absolute", 0), PricingSettings("markup", 500)}
    /\ sale = NoSale
    /\ notified = NoNotified
    /\ adays = << >>
    /\ forecast = NoForecast
    /\ event_log = << >>
    /\ max_events = DefaultMaxEvents
    /\ logged = << >>
    /\ objects = DefaultObjects
    /\ fixtures = FixtureInventory(0, 0, 0)
    /\ place_call = NoPlaceCall
    /\ try_call = NoTryCall
    /\ spawn_queries = <<SpawnQuery(1), SpawnQuery(1)>>
    /\ tooltips = << >>
    /\ tooltip_max = 1
    /\ tooltip_used = << >>
    /\ texts = << >>
    /\ text_max = 1
    /\ frame_hits = 0
    /\ frame_misses = 0
    /\ text_used = << >>
    /\ blocked_at = -1
    /\ spend = NoSpend

NextSales ==
    \/ /\ Len(customers) < MaxSaleCustomers
       /\ SpawnCustomer(ShelfA)
       /\ UNCHANGED <<bfsVars, tick_parity, orderVars, uiVars, cycleVars, skillVars, extVars>>
    \/ \E i \in 1 .. MaxSaleCustomers, dt \in ShopDTs :
          /\ MoveCustomerSale(i, dt)
          /\ UNCHANGED <<bfsVars, tick_parity, orderVars, uiVars, cycleVars, price_call, notified, forecastVars, logVars, moreVars>>
    \/ \E cid \in CardIds :
          /\ ListSelectedCardToShelf(ShelfA, cid)
          /\ UNCHANGED <<bfsVars, tick_parity, orderVars, uiVars, cycleVars, skillVars, extVars>>
    \/ /\ RankUp("haggle")
       /\ UNCHANGED <<baseVars, progVars, laterVars, moreVars>>

SpecSales == InitSales /\ [][NextSales]_vars
\* the staff, idle at the counter, is notified of shelf changes between its
\* update_staff ticks
InitNotify ==
    /\ bfs_blocked = {}
    /\ bfs_call = NoCall
    /\ bfs_result = NoResult
    /\ shelf_stocks \in NotifyShelves
    /\ inventory \in NotifyInventories
    /\ collection = NoCards
    /\ deck = NoCards
    /\ staff \in {[NewStaff(StaffStart) EXCEPT !.scan_cooldown = c] : c \in NotifyCooldowns}
    /\ tick_parity = 0
    /\ customers = << >>
    /\ pending_orders = << >>
    /\ time_seconds = 0
    /\ order_log = << >>
    /\ applied = << >>
    /\ op = "init"
    /\ sell_pending = NoSell
    /\ pack_open_queue = 0
    /\ pack_anim_active = FALSE
    /\ cycle_active = FALSE
    /\ cycle_paused = FALSE
    /\ cycle_phase = "day"
    /\ phase_timer = 0
    /\ spawned = 0
    /\ customer_schedule = << >>
    /\ day = 1
    /\ tick_log = << >>
    /\ ranks = [s \in Skills |-> 0]
    /\ skill_points = 0
    /\ level = 1
    /\ rank_call = NoRankCall
    /\ xp = 0
    /\ xp_call = NoXpCall
    /\ xp_query = NoXpQuery
    /\ mods_dirty = TRUE
    /\ cached_mods = NoModifiers
    /\ mods_out = NoModsCall
    /\ price_call = NoPriceCall
    /\ money = START_MONEY
    /\ pricing = PricingSettings("absolute", 0)
    /\ sale = NoSale
    /\ notified = NoNotified
    /\ adays = << >>
    /\ forecast = NoForecast
    /\ event_log = << >>
    /\ max_events = DefaultMaxEvents
    /\ logged = << >>
    /\ objects = DefaultObjects
    /\ fixtures = FixtureInventory(0, 0, 0)
    /\ place_call = NoPlaceCall
    /\ try_call = NoTryCall
    /\ spawn_queries = <<SpawnQuery(1), SpawnQuery(1)>>
    /\ tooltips = << >>
    /\ tooltip_max = 1
    /\ tooltip_used = << >>
    /\ texts = << >>
    /\ text_max = 1
    /\ frame_hits = 0
    /\ frame_misses = 0
    /\ text_used = << >>
    /\ blocked_at = -1
    /\ spend = NoSpend

NextNotify ==
    \/ \E k \in {ShelfA, ShelfB} :
          /\ Notify(k)
          /\ UNCHANGED <<bfsVars, customers, orderVars, uiVars, cycleVars, skillVars,
                         progVars, modVars, price_call, saleVars, forecastVars, logVars, moreVars>>
    \/ \E dt \in StaffDTs :
          /\ NotifiedTick(dt)
          /\ UNCHANGED <<bfsVars, customers, orderVars, uiVars, cycleVars, skillVars,
                         progVars, modVars, price_call, saleVars, forecastVars, logVars, moreVars>>

SpecNotify == InitNotify /\ [][NextNotify]_vars
\* sales and visitors are recorded day by day and the restock suggestions are
\* computed from the history
InitForecast ==
    /\ bfs_blocked = {}
    /\ bfs_call = NoCall
    /\ bfs_result = NoResult
    /\ shelf_stocks \in ForecastShelves
    /\ inventory \in ForecastInventories
    /\ collection = NoCards
    /\ deck = NoCards
    /\ staff = NewStaff(StaffStart)
    /\ tick_parity = 0
    /\ customers = << >>
    /\ pending_orders = << >>
    /\ time_seconds = 0
    /\ order_log = << >>
    /\ applied = << >>
    /\ op = "init"
    /\ sell_pending = NoSell
    /\ pack_open_queue = 0
    /\ pack_anim_active = FALSE
    /\ cycle_active = FALSE
    /\ cycle_paused = FALSE
    /\ cycle_phase = "day"
    /\ phase_timer = 0
    /\ spawned = 0
    /\ customer_schedule = << >>
    /\ day = 1
    /\ tick_log = << >>
    /\ ranks = [s \in Skills |-> 0]
    /\ skill_points = 0
    /\ level = 1
    /\ rank_call = NoRankCall
    /\ xp = 0
    /\ xp_call = NoXpCall
    /\ xp_query = NoXpQuery
    /\ mods_dirty = TRUE
    /\ cached_mods = NoModifiers
    /\ mods_out = NoModsCall
    /\ price_call = NoPriceCall
    /\ money = START_MONEY
    /\ pricing = PricingSettings("absolute", 0)
    /\ sale = NoSale
    /\ notified = NoNotified
    /\ adays = << >>
    /\ forecast = NoForecast
    /\ event_log = << >>
    /\ max_events = DefaultMaxEvents
    /\ logged = << >>
    /\ objects = DefaultObjects
    /\ fixtures = FixtureInventory(0, 0, 0)
    /\ place_call = NoPlaceCall
    /\ try_call = NoTryCall
    /\ spawn_queries = <<SpawnQuery(1), SpawnQuery(1)>>
    /\ tooltips = << >>
    /\ tooltip_max = 1
    /\ tooltip_used = << >>
    /\ texts = << >>
    /\ text_max = 1
    /\ frame_hits = 0
    /\ frame_misses = 0
    /\ text_used = << >>
    /\ blocked_at = -1
    /\ spend = NoSpend

NextForecast ==
    \/ \E d \in 1 .. MaxForecastDay, product \in ForecastProducts :
          /\ RecordSale(d, product)
          /\ UNCHANGED <<bfsVars, collection, deck, staff, tick_parity, customers, orderVars,
                         uiVars, cycleVars, skillVars, progVars, modVars, price_call,
                         saleVars, notified, logVars, moreVars>>
    \/ \E d \in 1 .. MaxForecastDay :
          /\ RecordVisitor(d)
          /\ UNCHANGED <<bfsVars, collection, deck, staff, tick_parity, customers, orderVars,
                         uiVars, cycleVars, skillVars, progVars, modVars, price_call,
                         saleVars, notified, logVars, moreVars>>
    \/ \E d \in ForecastDays, w \in ForecastWindows, k \in ForecastMax :
          /\ Forecast(d, w, k)
          /\ UNCHANGED <<bfsVars, collection, deck, staff, tick_parity, customers, orderVars,
                         uiVars, cycleVars, skillVars, progVars, modVars, price_call,
                         saleVars, notified, logVars, moreVars>>

SpecForecast == InitForecast /\ [][NextForecast]_vars
\* entries are logged into an empty event log with a small cap
InitLog ==
    /\ bfs_blocked = {}
    /\ bfs_call = NoCall
    /\ bfs_result = NoResult
    /\ shelf_stocks = << >>
    /\ inventory = Inventory(0, 0, EmptySingles)
    /\ collection = NoCards
    /\ deck = NoCards
    /\ staff = NewStaff(StaffStart)
    /\ tick_parity = 0
    /\ customers = << >>
    /\ pending_orders = << >>
    /\ time_seconds = 0
    /\ order_log = << >>
    /\ applied = << >>
    /\ op = "init"
    /\ sell_pending = NoSell
    /\ pack_open_queue = 0
    /\ pack_anim_active = FALSE
    /\ cycle_active = FALSE
    /\ cycle_paused = FALSE
    /\ cycle_phase = "day"
    /\ phase_timer = 0
    /\ spawned = 0
    /\ customer_schedule = << >>
    /\ day = 1
    /\ tick_log = << >>
    /\ ranks = [s \in Skills |-> 0]
    /\ skill_points = 0
    /\ level = 1
    /\ rank_call = NoRankCall
    /\ xp = 0
    /\ xp_call = NoXpCall
    /\ xp_query = NoXpQuery
    /\ mods_dirty = TRUE
    /\ cached_mods = NoModifiers
    /\ mods_out = NoModsCall
    /\ price_call = NoPriceCall
    /\ money = START_MONEY
    /\ pricing = PricingSettings("absolute", 0)
    /\ sale = NoSale
    /\ notified = NoNotified
    /\ adays = << >>
    /\ forecast = NoForecast
    /\ event_log = << >>
    /\ max_events \in EventCaps
    /\ logged = << >>
    /\ objects = DefaultObjects
    /\ fixtures = FixtureInventory(0, 0, 0)
    /\ place_call = NoPlaceCall
    /\ try_call = NoTryCall
    /\ spawn_queries = <<SpawnQuery(1), SpawnQuery(1)>>
    /\ tooltips = << >>
    /\ tooltip_max = 1
    /\ tooltip_used = << >>
    /\ texts = << >>
    /\ text_max = 1
    /\ frame_hits = 0
    /\ frame_misses = 0
    /\ text_used = << >>
    /\ blocked_at = -1
    /\ spend = NoSpend

NextLog ==
    \E kind \in EventKinds :
        /\ Log(kind)
        /\ UNCHANGED <<baseVars, skillVars, progVars, modVars, price_call, saleVars, notified,
                       forecastVars, moreVars>>

SpecLog == InitLog /\ [][NextLog]_vars

\* place and remove_at called on the default and on a cleared layout
InitLayout ==
    /\ bfs_blocked = {}
    /\ bfs_call = NoCall
    /\ bfs_result = NoResult
    /\ shelf_stocks = << >>
    /\ inventory = Inventory(0, 0, EmptySingles)
    /\ collection = NoCards
    /\ deck = NoCards
    /\ staff = NewStaff(StaffStart)
    /\ tick_parity = 0
    /\ customers = << >>
    /\ pending_orders = << >>
    /\ time_seconds = 0
    /\ order_log = << >>
    /\ applied = << >>
    /\ op = "init"
    /\ sell_pending = NoSell
    /\ pack_open_queue = 0
    /\ pack_anim_active = FALSE
    /\ cycle_active = FALSE
    /\ cycle_paused = FALSE
    /\ cycle_phase = "day"
    /\ phase_timer = 0
    /\ spawned = 0
    /\ customer_schedule = << >>
    /\ day = 1
    /\ tick_log = << >>
    /\ ranks = [s \in Skills |-> 0]
    /\ skill_points = 0
    /\ level = 1
    /\ rank_call = NoRankCall
    /\ xp = 0
    /\ xp_call = NoXpCall
    /\ xp_query = NoXpQuery
    /\ mods_dirty = TRUE
    /\ cached_mods = NoModifiers
    /\ mods_out = NoModsCall
    /\ price_call = NoPriceCall
    /\ money = START_MONEY
    /\ pricing = PricingSettings("absolute", 0)
    /\ sale = NoSale
    /\ notified = NoNotified
    /\ adays = << >>
    /\ forecast = NoForecast
    /\ event_log = << >>
    /\ max_events = DefaultMaxEvents
    /\ logged = << >>
    /\ objects \in {DefaultObjects, << >>}
    /\ fixtures = FixtureInventory(0, 0, 0)
    /\ place_call = NoPlaceCall
    /\ try_call = NoTryCall
    /\ spawn_queries = <<SpawnQuery(1), SpawnQuery(1)>>
    /\ tooltips = << >>
    /\ tooltip_max = 1
    /\ tooltip_used = << >>
    /\ texts = << >>
    /\ text_max = 1
    /\ frame_hits = 0
    /\ frame_misses = 0
    /\ text_used = << >>
    /\ blocked_at = -1
    /\ spend = NoSpend

NextLayout ==
    \/ \E kind \in FixtureKinds, tile \in PlaceTiles :
          Place(kind, tile) /\ UNCHANGED <<bfsVars, inventory, collection, deck, staff, tick_parity, customers, orderVars, uiVars, cycleVars, skillVars, progVars, modVars, laterVars, spawnVars, cacheVars, pacingVars, marketVars>>
    \/ \E tile \in PlaceTiles :
          RemoveAt(tile) /\ UNCHANGED <<bfsVars, inventory, collection, deck, staff, tick_parity, customers, orderVars, uiVars, cycleVars, skillVars, progVars, modVars, laterVars, spawnVars, cacheVars, pacingVars, marketVars>>

SpecLayout == InitLayout /\ [][NextLayout]_vars

\* try_place_object called with every stock of owned fixtures
InitPlace ==
    /\ bfs_blocked = {}
    /\ bfs_call = NoCall
    /\ bfs_result = NoResult
    /\ shelf_stocks = << >>
    /\ inventory = Inventory(0, 0, EmptySingles)
    /\ collection = NoCards
    /\ deck = NoCards
    /\ staff = NewStaff(StaffStart)
    /\ tick_parity = 0
    /\ customers = << >>
    /\ pending_orders = << >>
    /\ time_seconds = 0
    /\ order_log = << >>
    /\ applied = << >>
    /\ op = "init"
    /\ sell_pending = NoSell
    /\ pack_open_queue = 0
    /\ pack_anim_active = FALSE
    /\ cycle_active = FALSE
    /\ cycle_paused = FALSE
    /\ cycle_phase = "day"
    /\ phase_timer = 0
    /\ spawned = 0
    /\ customer_schedule = << >>
    /\ day = 1
    /\ tick_log = << >>
    /\ ranks = [s \in Skills |-> 0]
    /\ skill_points = 0
    /\ level = 1
    /\ rank_call = NoRankCall
    /\ xp = 0
    /\ xp_call = NoXpCall
    /\ xp_query = NoXpQuery
    /\ mods_dirty = TRUE
    /\ cached_mods = NoModifiers
    /\ mods_out = NoModsCall
    /\ price_call = NoPriceCall
    /\ money = START_MONEY
    /\ pricing = PricingSettings("absolute", 0)
    /\ sale = NoSale
    /\ notified = NoNotified
    /\ adays = << >>
    /\ forecast = NoForecast
    /\ event_log = << >>
    /\ max_events = DefaultMaxEvents
    /\ logged = << >>
    /\ objects = DefaultObjects
    /\ fixtures \in [FixtureKinds -> 0 .. MaxFixtures]
    /\ place_call = NoPlaceCall
    /\ try_call = NoTryCall
    /\ spawn_queries = <<SpawnQuery(1), SpawnQuery(1)>>
    /\ tooltips = << >>
    /\ tooltip_max = 1
    /\ tooltip_used = << >>
    /\ texts = << >>
    /\ text_max = 1
    /\ frame_hits = 0
    /\ frame_misses = 0
    /\ text_used = << >>
    /\ blocked_at = -1
    /\ spend = NoSpend

NextPlace ==
    \E kind \in FixtureKinds, tile \in PlaceTiles :
        TryPlaceObject(kind, tile) /\ UNCHANGED <<bfsVars, inventory, collection, deck, staff, tick_parity, customers, orderVars, uiVars, cycleVars, skillVars, progVars, modVars, laterVars, spawnVars, cacheVars, pacingVars, marketVars>>

SpecPlace == InitPlace /\ [][NextPlace]_vars

\* customer_spawn_interval asked for any two days in any order
InitSpawn ==
    /\ bfs_blocked = {}
    /\ bfs_call = NoCall
    /\ bfs_result = NoResult
    /\ shelf_stocks = << >>
    /\ inventory = Inventory(0, 0, EmptySingles)
    /\ collection = NoCards
    /\ deck = NoCards
    /\ staff = NewStaff(StaffStart)
    /\ tick_parity = 0
    /\ customers = << >>
    /\ pending_orders = << >>
    /\ time_seconds = 0
    /\ order_log = << >>
    /\ applied = << >>
    /\ op = "init"
    /\ sell_pending = NoSell
    /\ pack_open_queue = 0
    /\ pack_anim_active = FALSE
    /\ cycle_active = FALSE
    /\ cycle_paused = FALSE
    /\ cycle_phase = "day"
    /\ phase_timer = 0
    /\ spawned = 0
    /\ customer_schedule = << >>
    /\ day = 1
    /\ tick_log = << >>
    /\ ranks = [s \in Skills |-> 0]
    /\ skill_points = 0
    /\ level = 1
    /\ rank_call = NoRankCall
    /\ xp = 0
    /\ xp_call = NoXpCall
    /\ xp_query = NoXpQuery
    /\ mods_dirty = TRUE
    /\ cached_mods = NoModifiers
    /\ mods_out = NoModsCall
    /\ price_call = NoPriceCall
    /\ money = START_MONEY
    /\ pricing = PricingSettings("absolute", 0)
    /\ sale = NoSale
    /\ notified = NoNotified
    /\ adays = << >>
    /\ forecast = NoForecast
    /\ event_log = << >>
    /\ max_events = DefaultMaxEvents
    /\ logged = << >>
    /\ objects = DefaultObjects
    /\ fixtures = FixtureInventory(0, 0, 0)
    /\ place_call = NoPlaceCall
    /\ try_call = NoTryCall
    /\ spawn_queries \in {<<SpawnQuery(d), SpawnQuery(d)>> : d \in SpawnDays}
    /\ tooltips = << >>
    /\ tooltip_max = 1
    /\ tooltip_used = << >>
    /\ texts = << >>
    /\ text_max = 1
    /\ frame_hits = 0
    /\ frame_misses = 0
    /\ text_used = << >>
    /\ blocked_at = -1
    /\ spend = NoSpend

NextSpawn ==
    \E on_day \in SpawnDays :
        QuerySpawnInterval(on_day) /\ UNCHANGED <<baseVars, skillVars, progVars, modVars, laterVars, layoutVars, cacheVars, pacingVars, marketVars>>

SpecSpawn == InitSpawn /\ [][NextSpawn]_vars

\* both caches, built with every size, used with more keys than they hold
InitCache ==
    /\ bfs_blocked = {}
    /\ bfs_call = NoCall
    /\ bfs_result = NoResult
    /\ shelf_stocks = << >>
    /\ inventory = Inventory(0, 0, EmptySingles)
    /\ collection = NoCards
    /\ deck = NoCards
    /\ staff = NewStaff(StaffStart)
    /\ tick_parity = 0
    /\ customers = << >>
    /\ pending_orders = << >>
    /\ time_seconds = 0
    /\ order_log = << >>
    /\ applied = << >>
    /\ op = "init"
    /\ sell_pending = NoSell
    /\ pack_open_queue = 0
    /\ pack_anim_active = FALSE
    /\ cycle_active = FALSE
    /\ cycle_paused = FALSE
    /\ cycle_phase = "day"
    /\ phase_timer = 0
    /\ spawned = 0
    /\ customer_schedule = << >>
    /\ day = 1
    /\ tick_log = << >>
    /\ ranks = [s \in Skills |-> 0]
    /\ skill_points = 0
    /\ level = 1
    /\ rank_call = NoRankCall
    /\ xp = 0
    /\ xp_call = NoXpCall
    /\ xp_query = NoXpQuery
    /\ mods_dirty = TRUE
    /\ cached_mods = NoModifiers
    /\ mods_out = NoModsCall
    /\ price_call = NoPriceCall
    /\ money = START_MONEY
    /\ pricing = PricingSettings("absolute", 0)
    /\ sale = NoSale
    /\ notified = NoNotified
    /\ adays = << >>
    /\ forecast = NoForecast
    /\ event_log = << >>
    /\ max_events = DefaultMaxEvents
    /\ logged = << >>
    /\ objects = DefaultObjects
    /\ fixtures = FixtureInventory(0, 0, 0)
    /\ place_call = NoPlaceCall
    /\ try_call = NoTryCall
    /\ spawn_queries = <<SpawnQuery(1), SpawnQuery(1)>>
    /\ tooltips = << >>
    /\ tooltip_max \in {Max(1, m) : m \in CacheSizes}
    /\ tooltip_used = << >>
    /\ texts = << >>
    /\ text_max \in CacheSizes
    /\ frame_hits = 0
    /\ frame_misses = 0
    /\ text_used = << >>
    /\ blocked_at = -1
    /\ spend = NoSpend

NextCache ==
    \/ \E key \in TooltipKeys : Get(key) /\ UNCHANGED <<baseVars, skillVars, progVars, modVars, laterVars, layoutVars, spawnVars, pacingVars, marketVars>>
    \/ \E key \in TooltipKeys, value \in TooltipValues : Set(key, value) /\ UNCHANGED <<baseVars, skillVars, progVars, modVars, laterVars, layoutVars, spawnVars, pacingVars, marketVars>>
    \/ \E key \in TextKeys : Render(key) /\ UNCHANGED <<baseVars, skillVars, progVars, modVars, laterVars, layoutVars, spawnVars, pacingVars, marketVars>>
    \/ BeginFrame /\ UNCHANGED <<baseVars, skillVars, progVars, modVars, laterVars, layoutVars, spawnVars, pacingVars, marketVars>>

SpecCache == InitCache /\ [][NextCache]_vars

\* the staff alone in the shop with the walled-in shelf: update_staff ticks
InitWalled ==
    /\ bfs_blocked = {}
    /\ bfs_call = NoCall
    /\ bfs_result = NoResult
    /\ shelf_stocks \in WalledShelves
    /\ inventory \in WalledInventories
    /\ collection \in WalledCollections
    /\ deck \in WalledDecks
    /\ staff = NewStaff(StaffStart)
    /\ tick_parity = 0
    /\ customers = << >>
    /\ pending_orders = << >>
    /\ time_seconds = 0
    /\ order_log = << >>
    /\ applied = << >>
    /\ op = "init"
    /\ sell_pending = NoSell
    /\ pack_open_queue = 0
    /\ pack_anim_active = FALSE
    /\ cycle_active = FALSE
    /\ cycle_paused = FALSE
    /\ cycle_phase = "day"
    /\ phase_timer = 0
    /\ spawned = 0
    /\ customer_schedule = << >>
    /\ day = 1
    /\ tick_log = << >>
    /\ ranks = [s \in Skills |-> 0]
    /\ skill_points = 0
    /\ level = 1
    /\ rank_call = NoRankCall
    /\ xp = 0
    /\ xp_call = NoXpCall
    /\ xp_query = NoXpQuery
    /\ mods_dirty = TRUE
    /\ cached_mods = NoModifiers
    /\ mods_out = NoModsCall
    /\ price_call = NoPriceCall
    /\ money = START_MONEY
    /\ pricing = PricingSettings("absolute", 0)
    /\ sale = NoSale
    /\ notified = NoNotified
    /\ adays = << >>
    /\ forecast = NoForecast
    /\ event_log = << >>
    /\ max_events = DefaultMaxEvents
    /\ logged = << >>
    /\ objects = DefaultObjects
    /\ fixtures = FixtureInventory(0, 0, 0)
    /\ place_call = NoPlaceCall
    /\ try_call = NoTryCall
    /\ spawn_queries = <<SpawnQuery(1), SpawnQuery(1)>>
    /\ tooltips = << >>
    /\ tooltip_max = 1
    /\ tooltip_used = << >>
    /\ texts = << >>
    /\ text_max = 1
    /\ frame_hits = 0
    /\ frame_misses = 0
    /\ text_used = << >>
    /\ blocked_at = -1
    /\ spend = NoSpend

NextWalled ==
    \E dt \in StaffDTs :
        WalledTick(dt) /\ UNCHANGED <<bfsVars, customers, orderVars, uiVars, cycleVars, skillVars, extVars>>

SpecWalled == InitWalled /\ [][NextWalled]_vars /\ WF_tick_parity(TickCounted)

\* the walled shop after sales: notify_shelf_change calls between the
\* update_staff ticks
InitPriority ==
    /\ bfs_blocked = {}
    /\ bfs_call = NoCall
    /\ bfs_result = NoResult
    /\ shelf_stocks \in WalledShelves
    /\ inventory \in WalledInventories
    /\ collection \in WalledCollections
    /\ deck \in WalledDecks
    /\ staff = NewStaff(StaffStart)
    /\ tick_parity = 0
    /\ customers = << >>
    /\ pending_orders = << >>
    /\ time_seconds = 0
    /\ order_log = << >>
    /\ applied = << >>
    /\ op = "init"
    /\ sell_pending = NoSell
    /\ pack_open_queue = 0
    /\ pack_anim_active = FALSE
    /\ cycle_active = FALSE
    /\ cycle_paused = FALSE
    /\ cycle_phase = "day"
    /\ phase_timer = 0
    /\ spawned = 0
    /\ customer_schedule = << >>
    /\ day = 1
    /\ tick_log = << >>
    /\ ranks = [s \in Skills |-> 0]
    /\ skill_points = 0
    /\ level = 1
    /\ rank_call = NoRankCall
    /\ xp = 0
    /\ xp_call = NoXpCall
    /\ xp_query = NoXpQuery
    /\ mods_dirty = TRUE
    /\ cached_mods = NoModifiers
    /\ mods_out = NoModsCall
    /\ price_call = NoPriceCall
    /\ money = START_MONEY
    /\ pricing = PricingSettings("absolute", 0)
    /\ sale = NoSale
    /\ notified = NoNotified
    /\ adays = << >>
    /\ forecast = NoForecast
    /\ event_log = << >>
    /\ max_events = DefaultMaxEvents
    /\ logged = << >>
    /\ objects = DefaultObjects
    /\ fixtures = FixtureInventory(0, 0, 0)
    /\ place_call = NoPlaceCall
    /\ try_call = NoTryCall
    /\ spawn_queries = <<SpawnQuery(1), SpawnQuery(1)>>
    /\ tooltips = << >>
    /\ tooltip_max = 1
    /\ tooltip_used = << >>
    /\ texts = << >>
    /\ text_max = 1
    /\ frame_hits = 0
    /\ frame_misses = 0
    /\ text_used = << >>
    /\ blocked_at = -1
    /\ spend = NoSpend

NextPriority ==
    \/ \E k \in {ShelfA, ShelfD} : ShelfChanged(k) /\ UNCHANGED <<bfsVars, customers, orderVars, uiVars, cycleVars, skillVars, extVars>>
    \/ \E dt \in StaffDTs : WalledTick(dt) /\ UNCHANGED <<bfsVars, customers, orderVars, uiVars, cycleVars, skillVars, extVars>>

SpecPriority == InitPriority /\ [][NextPriority]_vars

\* a day phase just begun by _begin_day_phase, in a shop with one shelf or
\* with none yet: frames pass, customers come and leave
InitPacing ==
    /\ bfs_blocked = {}
    /\ bfs_call = NoCall
    /\ bfs_result = NoResult
    /\ shelf_stocks \in {<< >>, (ShelfA :> ShelfStock("booster", ShelfMax, ShelfMax, << >>))}
    /\ inventory = Inventory(0, 0, EmptySingles)
    /\ collection = NoCards
    /\ deck = NoCards
    /\ staff = NewStaff(StaffStart)
    /\ tick_parity = 0
    /\ customers = << >>
    /\ pending_orders = << >>
    /\ time_seconds = 0
    /\ order_log = << >>
    /\ applied = << >>
    /\ op = "init"
    /\ sell_pending = NoSell
    /\ pack_open_queue = 0
    /\ pack_anim_active = FALSE
    /\ cycle_active = TRUE
    /\ cycle_paused = FALSE
    /\ cycle_phase = "day"
    /\ phase_timer = 0
    /\ spawned = 0
    /\ customer_schedule \in {DaySchedule(d, PacingDayDuration) : d \in PacingDays}
    /\ day \in {d \in PacingDays : DaySchedule(d, PacingDayDuration) = customer_schedule}
    /\ tick_log = << >>
    /\ ranks = [s \in Skills |-> 0]
    /\ skill_points = 0
    /\ level = 1
    /\ rank_call = NoRankCall
    /\ xp = 0
    /\ xp_call = NoXpCall
    /\ xp_query = NoXpQuery
    /\ mods_dirty = TRUE
    /\ cached_mods = NoModifiers
    /\ mods_out = NoModsCall
    /\ price_call = NoPriceCall
    /\ money = START_MONEY
    /\ pricing = PricingSettings("absolute", 0)
    /\ sale = NoSale
    /\ notified = NoNotified
    /\ adays = << >>
    /\ forecast = NoForecast
    /\ event_log = << >>
    /\ max_events = DefaultMaxEvents
    /\ logged = << >>
    /\ objects = IF DOMAIN shelf_stocks = {} THEN DefaultObjects ELSE Append(DefaultObjects, ShopObject("shelf", ShelfA))
    /\ fixtures = FixtureInventory(0, 0, 0)
    /\ place_call = NoPlaceCall
    /\ try_call = NoTryCall
    /\ spawn_queries = <<SpawnQuery(1), SpawnQuery(1)>>
    /\ tooltips = << >>
    /\ tooltip_max = 1
    /\ tooltip_used = << >>
    /\ texts = << >>
    /\ text_max = 1
    /\ frame_hits = 0
    /\ frame_misses = 0
    /\ text_used = << >>
    /\ blocked_at = -1
    /\ spend = NoSpend

NextPacing ==
    \/ PacingTick(FrameDt) /\ UNCHANGED <<bfsVars, shopVars, tick_parity, orderVars, uiVars, skillVars, progVars, modVars, laterVars, layoutVars, spawnVars, cacheVars, marketVars>>
    \/ PlaceFirstShelf /\ UNCHANGED <<bfsVars, inventory, collection, deck, staff, tick_parity, customers, orderVars, uiVars, cycleVars, skillVars, progVars, modVars, laterVars, spawnVars, cacheVars, pacingVars, marketVars>>

SpecPacing == InitPacing /\ [][NextPacing]_vars

\* the staff alone in the divided shop: update_staff ticks
InitDivided ==
    /\ bfs_blocked = {}
    /\ bfs_call = NoCall
    /\ bfs_result = NoResult
    /\ shelf_stocks \in DividedShelves
    /\ inventory \in DividedInventories
    /\ collection = NoCards
    /\ deck = NoCards
    /\ staff \in {NewStaff(s) : s \in DividedStarts}
    /\ tick_parity = 0
    /\ customers = << >>
    /\ pending_orders = << >>
    /\ time_seconds = 0
    /\ order_log = << >>
    /\ applied = << >>
    /\ op = "init"
    /\ sell_pending = NoSell
    /\ pack_open_queue = 0
    /\ pack_anim_active = FALSE
    /\ cycle_active = FALSE
    /\ cycle_paused = FALSE
    /\ cycle_phase = "day"
    /\ phase_timer = 0
    /\ spawned = 0
    /\ customer_schedule = << >>
    /\ day = 1
    /\ tick_log = << >>
    /\ ranks = [s \in Skills |-> 0]
    /\ skill_points = 0
    /\ level = 1
    /\ rank_call = NoRankCall
    /\ xp = 0
    /\ xp_call = NoXpCall
    /\ xp_query = NoXpQuery
    /\ mods_dirty = TRUE
    /\ cached_mods = NoModifiers
    /\ mods_out = NoModsCall
    /\ price_call = NoPriceCall
    /\ money = START_MONEY
    /\ pricing = PricingSettings("absolute", 0)
    /\ sale = NoSale
    /\ notified = NoNotified
    /\ adays = << >>
    /\ forecast = NoForecast
    /\ event_log = << >>
    /\ max_events = DefaultMaxEvents
    /\ logged = << >>
    /\ objects = DefaultObjects
    /\ fixtures = FixtureInventory(0, 0, 0)
    /\ place_call = NoPlaceCall
    /\ try_call = NoTryCall
    /\ spawn_queries = <<SpawnQuery(1), SpawnQuery(1)>>
    /\ tooltips = << >>
    /\ tooltip_max = 1
    /\ tooltip_used = << >>
    /\ texts = << >>
    /\ text_max = 1
    /\ frame_hits = 0
    /\ frame_misses = 0
    /\ text_used = << >>
    /\ blocked_at = -1
    /\ spend = NoSpend

NextDivided ==
    \E dt \in StaffDTs : WalledTick(dt) /\ UNCHANGED <<bfsVars, customers, orderVars, uiVars, cycleVars, skillVars, extVars>>

SpecDivided == InitDivided /\ [][NextDivided]_vars /\ WF_tick_parity(TickCounted)

\* the player at the market, starting with an empty stock and an empty
\* collection: suggested orders, their delivery, pack openings, market
\* singles and sellbacks
InitArbitrage ==
    /\ bfs_blocked = {}
    /\ bfs_call = NoCall
    /\ bfs_result = NoResult
    /\ shelf_stocks = << >>
    /\ inventory = Inventory(0, 0, EmptySingles)
    /\ collection = NoCards
    /\ deck = NoCards
    /\ staff = NewStaff(StaffStart)
    /\ tick_parity = 0
    /\ customers = << >>
    /\ pending_orders = << >>
    /\ time_seconds = 0
    /\ order_log = << >>
    /\ applied = << >>
    /\ op = "init"
    /\ sell_pending = NoSell
    /\ pack_open_queue = 0
    /\ pack_anim_active = FALSE
    /\ cycle_active = FALSE
    /\ cycle_paused = FALSE
    /\ cycle_phase = "day"
    /\ phase_timer = 0
    /\ spawned = 0
    /\ customer_schedule = << >>
    /\ day = 1
    /\ tick_log = << >>
    /\ ranks = [s \in Skills |-> 0]
    /\ skill_points = 0
    /\ level = 1
    /\ rank_call = NoRankCall
    /\ xp = 0
    /\ xp_call = NoXpCall
    /\ xp_query = NoXpQuery
    /\ mods_dirty = TRUE
    /\ cached_mods = NoModifiers
    /\ mods_out = NoModsCall
    /\ price_call = NoPriceCall
    /\ money = START_MONEY
    /\ pricing = PricingSettings("absolute", 0)
    /\ sale = NoSale
    /\ notified = NoNotified
    /\ adays = << >>
    /\ forecast = NoForecast
    /\ event_log = << >>
    /\ max_events = DefaultMaxEvents
    /\ logged = << >>
    /\ objects = DefaultObjects
    /\ fixtures = FixtureInventory(0, 0, 0)
    /\ place_call = NoPlaceCall
    /\ try_call = NoTryCall
    /\ spawn_queries = <<SpawnQuery(1), SpawnQuery(1)>>
    /\ tooltips = << >>
    /\ tooltip_max = 1
    /\ tooltip_used = << >>
    /\ texts = << >>
    /\ text_max = 1
    /\ frame_hits = 0
    /\ frame_misses = 0
    /\ text_used = << >>
    /\ blocked_at = -1
    /\ spend = NoSpend

NextArbitrage ==
    \/ /\ order_log = << >>
       /\ \E product \in {"booster", "deck"}, qty \in {0, 1} :
             OrderSuggested(product, qty)
       /\ UNCHANGED <<collection, deck, uiVars, skillVars, progVars, modVars, fixtures,
                      marketRest>>
    \/ /\ AdvanceTime(OrderDelay)
       /\ UNCHANGED <<collection, deck, uiVars, money, skillVars, progVars, modVars,
                      fixtures, spend, marketRest>>
    \/ /\ ProcessOrdersPass
       /\ UNCHANGED <<collection, deck, uiVars, money, skillVars, progVars, modVars,
                      fixtures, spend, marketRest>>
    \/ /\ QueueOpenSelectedPacks(1)
       /\ UNCHANGED <<deck, orderVars, money, skillVars, progVars, modVars, fixtures,
                      spend, marketRest>>
    \/ /\ UpdatePackAnim
       /\ UNCHANGED <<deck, orderVars, money, skillVars, progVars, modVars, fixtures,
                      spend, marketRest>>
    \/ /\ OwnedTotal(collection) < MaxOwned
       /\ \E rarity \in {"common"}, pick \in CardIds : BuyMarketSingle(rarity, pick)
       /\ UNCHANGED <<inventory, deck, orderVars, uiVars, skillVars, progVars, modVars,
                      fixtures, marketRest>>
    \/ /\ \E key \in {"booster", "deck"}, qty \in {1} : QueueSellItemsPriced(key, qty)
       /\ UNCHANGED <<inventory, collection, deck, orderVars, pack_open_queue,
                      pack_anim_active, money, skillVars, progVars, modVars, fixtures,
                      spend, marketRest>>
    \/ /\ \E cid \in CardIds, qty \in {1} : QueueSellSelectedCard(cid, qty)
       /\ UNCHANGED <<inventory, collection, deck, orderVars, pack_open_queue,
                      pack_anim_active, money, skillVars, progVars, modVars, fixtures,
                      spend, marketRest>>
    \/ /\ \E rarity \in {"common", "rare"}, qty \in {5} : QueueSellRandomRarity(rarity, qty)
       /\ UNCHANGED <<inventory, collection, deck, orderVars, pack_open_queue,
                      pack_anim_active, money, skillVars, progVars, modVars, fixtures,
                      spend, marketRest>>
    \/ /\ xp_call.n < MaxXpCalls
       /\ \E first \in BOOLEAN : ConfirmSellPendingPaid(first)
       /\ UNCHANGED <<deck, orderVars, pack_open_queue, pack_anim_active, fixtures,
                      spend, marketRest>>

SpecArbitrage == InitArbitrage /\ [][NextArbitrage]_vars

\* the shop's purse: fixture purchases, fixed and suggested orders and their
\* delivery, market singles, customers paying and sellbacks of whole stocks
InitSpending ==
    /\ bfs_blocked = {}
    /\ bfs_call = NoCall
    /\ bfs_result = NoResult
    /\ shelf_stocks = (ShelfA :> ShelfStock("booster", 2, ShelfMax, <<>>))
    /\ inventory = Inventory(0, 0, EmptySingles)
    /\ collection = NoCards
    /\ deck = NoCards
    /\ staff = NewStaff(StaffStart)
    /\ tick_parity = 0
    /\ customers = << >>
    /\ pending_orders = << >>
    /\ time_seconds = 0
    /\ order_log = << >>
    /\ applied = << >>
    /\ op = "init"
    /\ sell_pending = NoSell
    /\ pack_open_queue = 0
    /\ pack_anim_active = FALSE
    /\ cycle_active = FALSE
    /\ cycle_paused = FALSE
    /\ cycle_phase = "day"
    /\ phase_timer = 0
    /\ spawned = 0
    /\ customer_schedule = << >>
    /\ day = 1
    /\ tick_log = << >>
    /\ ranks = [s \in Skills |-> 0]
    /\ skill_points = 0
    /\ level = 1
    /\ rank_call = NoRankCall
    /\ xp = 0
    /\ xp_call = NoXpCall
    /\ xp_query = NoXpQuery
    /\ mods_dirty = TRUE
    /\ cached_mods = NoModifiers
    /\ mods_out = NoModsCall
    /\ price_call = NoPriceCall
    /\ money \in StartingMoney
    /\ pricing = PricingSettings("absolute", 0)
    /\ sale = NoSale
    /\ notified = NoNotified
    /\ adays = << >>
    /\ forecast = NoForecast
    /\ event_log = << >>
    /\ max_events = DefaultMaxEvents
    /\ logged = << >>
    /\ objects = DefaultObjects
    /\ fixtures = FixtureInventory(0, 0, 0)
    /\ place_call = NoPlaceCall
    /\ try_call = NoTryCall
    /\ spawn_queries = <<SpawnQuery(1), SpawnQuery(1)>>
    /\ tooltips = << >>
    /\ tooltip_max = 1
    /\ tooltip_used = << >>
    /\ texts = << >>
    /\ text_max = 1
    /\ frame_hits = 0
    /\ frame_misses = 0
    /\ text_used = << >>
    /\ blocked_at = -1
    /\ spend = NoSpend

NextSpending ==
    \/ /\ \E kind \in FixtureKinds \cup {"rug"} : TryBuyFixture(kind)
       /\ UNCHANGED <<inventory, collection, deck, orderVars, uiVars, skillVars, progVars,
                      marketRest>>
    \/ /\ \E product \in {"booster"} : OrderFixed(product)
       /\ UNCHANGED <<collection, deck, uiVars, skillVars, progVars, modVars, fixtures,
                      marketRest>>
    \/ /\ \E product \in {"booster", "rug"}, qty \in {0, 3} : OrderSuggested(product, qty)
       /\ UNCHANGED <<collection, deck, uiVars, skillVars, progVars, modVars, fixtures,
                      marketRest>>
    \/ /\ AdvanceTime(OrderDelay)
       /\ UNCHANGED <<collection, deck, uiVars, money, skillVars, progVars, modVars,
                      fixtures, spend, marketRest>>
    \/ /\ ProcessOrdersPass
       /\ UNCHANGED <<collection, deck, uiVars, money, skillVars, progVars, modVars,
                      fixtures, spend, marketRest>>
    \/ /\ OwnedTotal(collection) < MaxOwned
       /\ \E rarity \in {"rare"}, pick \in CardIds : BuyMarketSingle(rarity, pick)
       /\ UNCHANGED <<inventory, deck, orderVars, uiVars, skillVars, progVars, modVars,
                      fixtures, marketRest>>
    \/ /\ CustomerPays(ShelfA, 1)
       /\ UNCHANGED <<inventory, collection, deck, orderVars, uiVars, fixtures, spend,
                      bfsVars, tick_parity, customers, cycleVars, price_call, notified,
                      forecastVars, logVars, objects, place_call, try_call, spawnVars,
                      cacheVars, pacingVars, pricing, mods_out>>
    \/ /\ \E key \in {"booster"} :
             QueueSellItemsPriced(key, InvAvailable(inventory, key))
       /\ UNCHANGED <<inventory, collection, deck, orderVars, pack_open_queue,
                      pack_anim_active, money, skillVars, progVars, modVars, fixtures,
                      spend, marketRest>>
    \/ /\ \E first \in BOOLEAN : ConfirmSellPendingPaid(first)
       /\ UNCHANGED <<deck, orderVars, pack_open_queue, pack_anim_active, fixtures,
                      spend, marketRest>>

SpecSpending == InitSpending /\ [][NextSpending]_vars

\* the player at the deck, sell and shelf tabs while the staff restocks
\* listed cards
InitDeck ==
    /\ bfs_blocked = {}
    /\ bfs_call = NoCall
    /\ bfs_result = NoResult
    /\ shelf_stocks = (ShelfA :> ShelfStock("single_common", 1, 3, <<"c2">>)) @@ (ShelfB :> ShelfStock("empty", 0, 3, <<>>))
    /\ inventory = Inventory(0, 0, EmptySingles)
    /\ collection \in DeckCollections
    /\ deck \in DeckStarts(collection)
    /\ staff = NewStaff(StaffStart)
    /\ tick_parity = 0
    /\ customers = << >>
    /\ pending_orders = << >>
    /\ time_seconds = 0
    /\ order_log = << >>
    /\ applied = << >>
    /\ op = "init"
    /\ sell_pending = NoSell
    /\ pack_open_queue = 0
    /\ pack_anim_active = FALSE
    /\ cycle_active = FALSE
    /\ cycle_paused = FALSE
    /\ cycle_phase = "day"
    /\ phase_timer = 0
    /\ spawned = 0
    /\ customer_schedule = << >>
    /\ day = 1
    /\ tick_log = << >>
    /\ ranks = [s \in Skills |-> 0]
    /\ skill_points = 0
    /\ level = 1
    /\ rank_call = NoRankCall
    /\ xp = 0
    /\ xp_call = NoXpCall
    /\ xp_query = NoXpQuery
    /\ mods_dirty = TRUE
    /\ cached_mods = NoModifiers
    /\ mods_out = NoModsCall
    /\ price_call = NoPriceCall
    /\ money = START_MONEY
    /\ pricing = PricingSettings("absolute", 0)
    /\ sale = NoSale
    /\ notified = NoNotified
    /\ adays = << >>
    /\ forecast = NoForecast
    /\ event_log = << >>
    /\ max_events = DefaultMaxEvents
    /\ logged = << >>
    /\ objects = DefaultObjects
    /\ fixtures = FixtureInventory(0, 0, 0)
    /\ place_call = NoPlaceCall
    /\ try_call = NoTryCall
    /\ spawn_queries = <<SpawnQuery(1), SpawnQuery(1)>>
    /\ tooltips = << >>
    /\ tooltip_max = 1
    /\ tooltip_used = << >>
    /\ texts = << >>
    /\ text_max = 1
    /\ frame_hits = 0
    /\ frame_misses = 0
    /\ text_used = << >>
    /\ blocked_at = -1
    /\ spend = NoSpend

NextDeck ==
    \/ /\ \E cid \in CardIds : AddSelectedCard(cid)
       /\ UNCHANGED <<shelf_stocks, inventory, collection, staff, orderVars, uiVars, money,
                      skillVars, progVars, modVars, fixtures, spend, marketRest>>
    \/ /\ AutoFillDeck
       /\ UNCHANGED <<shelf_stocks, inventory, collection, staff, orderVars, uiVars, money,
                      skillVars, progVars, modVars, fixtures, spend, marketRest>>
    \/ /\ \E cid \in CardIds, qty \in SellQtys : QueueSellSelectedCard(cid, qty)
       /\ UNCHANGED <<inventory, collection, deck, orderVars, pack_open_queue,
                      pack_anim_active, money, skillVars, progVars, modVars, fixtures,
                      spend, marketRest>>
    \/ /\ \E rarity \in RaritySet, qty \in SellQtys : QueueSellRandomRarity(rarity, qty)
       /\ UNCHANGED <<inventory, collection, deck, orderVars, pack_open_queue,
                      pack_anim_active, money, skillVars, progVars, modVars, fixtures,
                      spend, marketRest>>
    \/ /\ \E first \in BOOLEAN : ConfirmSellPendingPaid(first)
       /\ UNCHANGED <<deck, orderVars, pack_open_queue, pack_anim_active, fixtures,
                      spend, marketRest>>
    \/ /\ \E cid \in CardIds : ListSelectedCardToShelf(ShelfB, cid)
       /\ UNCHANGED <<orderVars, uiVars, money, skillVars, progVars, modVars, fixtures,
                      spend, bfsVars, tick_parity, cycleVars, price_call, notified,
                      forecastVars, logVars, objects, place_call, try_call, spawnVars,
                      cacheVars, pacingVars, pricing, sale, mods_out>>
    \/ /\ \E cid \in CardIds : RestockListedCard(ShelfA, cid)
       /\ UNCHANGED <<deck, staff, orderVars, uiVars, money, skillVars, progVars, modVars,
                      fixtures, spend, bfsVars, tick_parity, customers, cycleVars,
                      price_call, notified, forecastVars, logVars, objects, place_call,
                      try_call, spawnVars, cacheVars, pacingVars, pricing, sale, mods_out>>

SpecDeck == InitDeck /\ [][NextDeck]_vars
====
